---- MODULE Spec2Model ----
(***************************************************************************)
(* Model of the sales analytics pipeline: DataCleaner (cleaning.py),       *)
(* DataAggregator (transformation.py), CSVReader (ingestion.py) and the    *)
(* DataPipeline driver (orchestrator.py).                                  *)
(*                                                                         *)
(* Numbers.  Python floats are modelled as exact decimals in fixed point:  *)
(*   unit_price, raw numeric values   in tenths      (1000.0  -> 10000)    *)
(*   discount_percent                 in tenths      (0.7     -> 7)        *)
(*   revenue = q * price * (1 - d)    in hundredths  (50000.0 -> 5000000)  *)
(*   revenue * discount_percent       in thousandths                       *)
(* Averages are kept as fractions [n, d] and compared by cross             *)
(* multiplication.  The only non-finite value is the raw float('inf').     *)
(*                                                                         *)
(* Python values.  None is <<>> and a present value x is <<x>> wherever a   *)
(* field may be None; a dict is the sequence of its [key, val] entries in  *)
(* insertion order; a raised exception is the flag "raised" of a result.   *)
(*                                                                         *)
(* Strings.  A string whose characters the program inspects (quantity,     *)
(* unit_price, discount_percent, customer_email) is the sequence of its    *)
(* characters.  A name (product_name, category, region, order_id) is an    *)
(* atomic string, with strip(), lower() and title() given on the names of  *)
(* the model.  A date string is the record of its separator and fields.    *)
(***************************************************************************)
EXTENDS Integers, Sequences, FiniteSets, TLC

VARIABLES
    aggregator,     \* run -> the DataAggregator object of that run
    cleaner,        \* run -> the DataCleaner object of that run
    pc,             \* run -> position of DataPipeline.run / _process_chunks; for a
                    \*        directly driven object, the calls made on it so far
    chunk_size,     \* run -> DataPipeline.chunk_size
    source,         \* run -> the data rows of the input file
    reader_pos,     \* run -> number of rows the CSVReader generator has consumed
    raw_chunk,      \* run -> the chunk being cleaned (rows not yet cleaned)
    cleaned_chunk,  \* run -> cleaned_chunk of _process_chunks
    last_clean,     \* run -> history: outcome of the latest clean_record call
    clean_calls,    \* run -> history: clean_record calls, by outcome
    fed,            \* run -> history: records passed to process_chunk, in order
    offered,        \* run -> history: anomaly records offered to _update_anomaly_records
    faults,         \* run -> the I/O failures that await the run
    yielded,        \* run -> history: the chunks read_in_chunks has yielded
    disk,           \* run -> the files of the output directory, as written
    results,        \* run -> what DataPipeline.run returned
    job_status,     \* api_server: job id -> the job's dict in the global job_status
    task,           \* api_server: job id -> position and locals of its background task
    fs,             \* api_server: path -> the file or directory the disk holds there
    handler,        \* api_server: the request handler the event loop is inside of
    job_metadata    \* api_server: the ids of the jobs in data/job_metadata.json

vars == <<aggregator, cleaner, pc, chunk_size, source, reader_pos, raw_chunk,
          cleaned_chunk, last_clean, clean_calls, fed, offered,
          faults, yielded, disk, results>>

(* The variables of the API server, which the pipeline on its own leaves   *)
(* alone.                                                                  *)
api_vars == <<job_status, task, fs, handler, job_metadata>>

-----------------------------------------------------------------------------
(* Bounds of the model. *)

\* records passed one chunk at a time to a directly driven aggregator
MaxRecords == 3
\* length of a chunk passed to process_chunk in one call
MaxChunkLen == 2
\* largest anomaly_limit / top_products_limit tried
MaxLimit == 2
\* clean_record calls on a directly driven cleaner
MaxCleanCalls == 3
\* data rows of an input file
MaxRows == 3
\* largest chunk_size of a pipeline run
MaxChunkSize == 2
\* data rows of an input file read or saved under I/O failures
MaxFaultRows == 2
\* largest chunk_size of a run over a long input file
MaxBulkChunkSize == 100
\* data rows of the input file of each of two concurrent runs
MaxConcRows == 2
\* records scored after the opening chunk of ordinary sales
MaxScoreRecords == 2
\* jobs the API server is asked to create
MaxJobs == 2
\* distinct num_rows values asked of /run-pipeline and /run-large-scale-test
MaxRowCounts == 2

Runs == {1, 2}

-----------------------------------------------------------------------------
(* Python helpers. *)

None == <<>>
Some(x) == <<x>>
IsNone(o) == o = <<>>

Range(s) == {s[i] : i \in 1..Len(s)}

-----------------------------------------------------------------------------
(* The API server: job ids, the paths it uses, and its state at start-up.   *)

\* uuid.uuid4(): a job id is never given twice
JobIds == 1..MaxJobs
RowCounts == 1..MaxRowCounts

\* A path is <<directory or file name, job id or num_rows or 0>>.
\* UPLOAD_DIR / f"{job_id}_{file.filename}"
UploadPath(j) == <<"data/uploaded", j>>
\* input_file of run_main_pipeline
MainInput == <<"data/raw/sales_data.csv", 0>>
\* f"data/raw/large_sales_data_{num_rows}.csv"
LargeInput(n) == <<"data/raw/large_sales_data", n>>
\* config.DEFAULT_OUTPUT_DIR and the literal "data/processed"
ProcessedDir == <<"data/processed", 0>>
\* Path("data/processed") / job_id
JobOutputDir(j) == <<"data/processed", j>>
\* config.DASHBOARD_DATA_DIR
DashboardDir == <<"dashboard_app/transformed_data", 0>>

Paths ==
    {UploadPath(j) : j \in JobIds} \cup {MainInput}
        \cup {LargeInput(n) : n \in RowCounts}
        \cup {ProcessedDir} \cup {JobOutputDir(j) : j \in JobIds} \cup {DashboardDir}

\* What the disk holds at a path. The artifacts of a directory are the files
\* one save_all_data wrote there: by which job, from which input content.
Absent == [kind |-> "absent"]
DiskFile(content) == [kind |-> "file", content |-> content]
DiskDir(artifacts) == [kind |-> "dir", artifacts |-> artifacts]

\* the content of an input file: the bytes job j uploaded, or the num_rows
\* rows the DataGenerator called by job j wrote
Uploaded(j) == <<"uploaded", j, 0>>
Generated(j, n) == <<"generated", j, n>>

\* p is dir or lies below it: job output directories lie in data/processed
Below(p, dir) == p = dir \/ (dir = ProcessedDir /\ p[1] = "data/processed")

\* Path.mkdir(parents=True, exist_ok=True)
Mkdir(disk_, dir) ==
    [p \in Paths |-> IF disk_[p] = Absent /\ Below(dir, p) THEN DiskDir(None) ELSE disk_[p]]

\* shutil.rmtree
Rmtree(disk_, dir) == [p \in Paths |-> IF Below(p, dir) THEN Absent ELSE disk_[p]]

\* json.dump of the whole dict: of the file, the jobs it lists are kept
save_job_metadata(job_status_dict) == {j \in JobIds : job_status_dict[j] # None}

\* the event loop is between requests
NoHandler == [op |-> "idle", job |-> 0, at |-> "idle"]
\* no background task was ever added for the job id
NoTask ==
    [pc |-> "none", type |-> "none", num_rows |-> 0, input_file |-> <<"", 0>>,
     output_dir |-> <<"", 0>>, data |-> None, results |-> None, error |-> None]

\* The module as imported with no data/job_metadata.json and no job
\* directory on disk: initialize_job_status returns {}.
ServerStart ==
    /\ job_status = [j \in JobIds |-> None]
    /\ task = [j \in JobIds |-> NoTask]
    /\ fs = [p \in Paths |-> Absent]
    /\ handler = NoHandler
    /\ job_metadata = {}

\* dict: sequence of [key, val] entries, keys unique, insertion ordered
DictKeys(d) == {d[i].key : i \in 1..Len(d)}
DictHas(d, k) == \E i \in 1..Len(d) : d[i].key = k
DictIndex(d, k) == CHOOSE i \in 1..Len(d) : d[i].key = k
DictGet(d, k) == d[DictIndex(d, k)].val
\* d[k] = v: replaces the value in place, or appends a new entry
DictPut(d, k, v) ==
    IF DictHas(d, k)
    THEN [d EXCEPT ![DictIndex(d, k)] = [key |-> k, val |-> v]]
    ELSE Append(d, [key |-> k, val |-> v])
\* defaultdict.__getitem__: a missing key is created with the default
DefaultGet(d, k, default) == IF DictHas(d, k) THEN DictGet(d, k) ELSE default

\* lexicographic > on tuples of integers of the same length
KeyGt(a, b) ==
    \E i \in 1..Len(a) : a[i] > b[i] /\ \A j \in 1..(i - 1) : a[j] = b[j]

\* list.sort(key=..., reverse=True) / sorted(..., reverse=True), keys[i] being the
\* sort key of s[i]: stable, descending
SortedDesc(s, keys) ==
    LET n == Len(s)
        pos(i) == 1 + Cardinality({j \in 1..n :
                        \/ KeyGt(keys[j], keys[i])
                        \/ keys[j] = keys[i] /\ j < i})
    IN  [p \in 1..n |-> s[CHOOSE i \in 1..n : pos(i) = p]]

\* s[:n] of Python, for any integer n
Slice(s, n) ==
    LET stop == IF n >= 0 THEN (IF n < Len(s) THEN n ELSE Len(s))
                ELSE (IF Len(s) + n > 0 THEN Len(s) + n ELSE 0)
    IN  SubSeq(s, 1, stop)

RECURSIVE SumSeq(_)
SumSeq(s) ==
    IF s = <<>> THEN 0
    ELSE IF Len(s) = 1 THEN s[1]
    ELSE LET half == Len(s) \div 2
         IN  SumSeq(SubSeq(s, 1, half)) + SumSeq(SubSeq(s, half + 1, Len(s)))

Min(x, y) == IF x <= y THEN x ELSE y

-----------------------------------------------------------------------------
(* DataAggregator (transformation.py). *)

\* program constants of the anomaly rules (scaled as stated in the header)
StatMinRecords == 100
SampleCap == 1000
RevenueFactor == 10
QuantityFactor == 5
PriceFactor == 5
HighDiscount == 7
HighValuePrice == 10000
LargeDiscount == 5
HighRevenue == 5000000
ExtremeQuantity == 100
ExtremePrice == 5000
AnomalyMinScore == 2

MonthlyDefault ==
    [revenue |-> 0, quantity |-> 0, total_discount |-> 0, num_transactions |-> 0]
ProductDefault == [revenue |-> 0, quantity |-> 0]
RegionDefault == [revenue |-> 0, quantity |-> 0]
CategoryDefault ==
    [total_discount_revenue |-> 0, total_revenue |-> 0, num_transactions |-> 0]
StatsDefault == [total |-> 0, count |-> 0, values |-> <<>>]

\* DataAggregator.__init__ and _reset_aggregations
DataAggregator(anomaly_limit, top_products_limit) ==
    [anomaly_limit      |-> anomaly_limit,
     top_products_limit |-> top_products_limit,
     monthly_sales      |-> <<>>,
     product_sales      |-> <<>>,
     region_sales       |-> <<>>,
     category_discounts |-> <<>>,
     anomaly_records    |-> <<>>,
     records_processed  |-> 0,
     revenue_stats      |-> StatsDefault,
     quantity_stats     |-> StatsDefault,
     price_stats        |-> StatsDefault,
     has_top_products   |-> FALSE,
     top_products       |-> <<>>]

\* fault: every value is kept as a sample
FaultyUpdateStat_NoCap(st, x) ==
    [total  |-> st.total + x,
     count  |-> st.count + 1,
     values |-> Append(st.values, x)]

\* one tracker of _update_statistics
UpdateStat(st, x) ==
    [total  |-> st.total + x,
     count  |-> st.count + 1,
     values |-> IF Len(st.values) < SampleCap THEN Append(st.values, x) ELSE st.values]

_update_statistics(a, revenue, quantity, unit_price) ==
    [a EXCEPT !.revenue_stats  = UpdateStat(@, revenue),
              !.quantity_stats = UpdateStat(@, quantity),
              !.price_stats    = UpdateStat(@, unit_price)]

\* record['sale_date'].strftime("%Y-%m")
MonthKey(date) == <<date.year, date.month>>

\* x > (total / count) * factor, for count > 0
AboveAverage(x, st, factor) == x * st.count > st.total * factor

\* (score, reasons) of each rule
_statistical_anomaly_checks(a, revenue, quantity, unit_price) ==
    LET r1 == IF AboveAverage(revenue, a.revenue_stats, RevenueFactor)
              THEN <<3, <<"Extremely high revenue">>>> ELSE <<0, <<>>>>
        r2 == IF AboveAverage(quantity, a.quantity_stats, QuantityFactor)
              THEN <<2, <<"Unusually high quantity">>>> ELSE <<0, <<>>>>
        r3 == IF AboveAverage(unit_price, a.price_stats, PriceFactor)
              THEN <<2, <<"Extremely high unit price">>>> ELSE <<0, <<>>>>
    IN  <<r1[1] + r2[1] + r3[1], r1[2] \o r2[2] \o r3[2]>>

_discount_anomaly_checks(unit_price, discount) ==
    LET r1 == IF discount > HighDiscount
              THEN <<1, <<"Suspicious high discount">>>> ELSE <<0, <<>>>>
        r2 == IF unit_price > HighValuePrice /\ discount > LargeDiscount
              THEN <<2, <<"High-value item with large discount">>>> ELSE <<0, <<>>>>
    IN  <<r1[1] + r2[1], r1[2] \o r2[2]>>

_revenue_threshold_anomaly(revenue) ==
    IF revenue > HighRevenue THEN <<1, <<"High-value transaction">>>> ELSE <<0, <<>>>>

_extreme_combination_anomaly(quantity, unit_price) ==
    IF quantity > ExtremeQuantity /\ unit_price > ExtremePrice
    THEN <<2, <<"Large quantity of expensive items">>>> ELSE <<0, <<>>>>

\* the sort key of the anomaly list
AnomalyKey(x) == <<x.anomaly_score, x.revenue>>
AnomalyKeys(s) == [i \in 1..Len(s) |-> AnomalyKey(s[i])]

\* record.copy() with the two anomaly fields added
AnomalyRecord(record, score, reasons) ==
    [f \in DOMAIN record \cup {"anomaly_score", "anomaly_reasons"} |->
        IF f = "anomaly_score" THEN score
        ELSE IF f = "anomaly_reasons" THEN reasons
        ELSE record[f]]

\* fault: the list is left as appended, never re-sorted
Faulty_update_anomaly_records_NoSort(a, anomaly_record, anomaly_score, revenue) ==
    LET list == a.anomaly_records
        last == list[Len(list)]
    IN  IF Len(list) < a.anomaly_limit
        THEN [agg |-> [a EXCEPT !.anomaly_records = Append(list, anomaly_record)],
              raised |-> FALSE]
        ELSE IF list = <<>>
        THEN [agg |-> a, raised |-> TRUE]
        ELSE IF \/ anomaly_score > last.anomaly_score
                \/ anomaly_score = last.anomaly_score /\ revenue > last.revenue
        THEN [agg |-> [a EXCEPT !.anomaly_records =
                          Append(SubSeq(list, 1, Len(list) - 1), anomaly_record)],
              raised |-> FALSE]
        ELSE [agg |-> a, raised |-> FALSE]

\* fault: a full list also replaces its last entry on an exact tie (>= for >)
Faulty_update_anomaly_records_TieReplaces(a, anomaly_record, anomaly_score, revenue) ==
    LET list == a.anomaly_records
        last == list[Len(list)]
        resorted(l) == SortedDesc(l, AnomalyKeys(l))
    IN  IF Len(list) < a.anomaly_limit
        THEN [agg    |-> [a EXCEPT !.anomaly_records = resorted(Append(list, anomaly_record))],
              raised |-> FALSE]
        ELSE IF list = <<>>
        THEN [agg |-> a, raised |-> TRUE]
        ELSE IF \/ anomaly_score > last.anomaly_score
                \/ anomaly_score = last.anomaly_score /\ revenue >= last.revenue
        THEN [agg    |-> [a EXCEPT !.anomaly_records =
                              resorted(Append(SubSeq(list, 1, Len(list) - 1), anomaly_record))],
              raised |-> FALSE]
        ELSE [agg |-> a, raised |-> FALSE]

\* _update_anomaly_records: [agg, raised]; raised is the IndexError of
\* anomaly_records[-1] on an empty list
_update_anomaly_records(a, anomaly_record, anomaly_score, revenue) ==
    LET list == a.anomaly_records
        last == list[Len(list)]
        resorted(l) == SortedDesc(l, AnomalyKeys(l))
    IN  IF Len(list) < a.anomaly_limit
        THEN [agg    |-> [a EXCEPT !.anomaly_records = resorted(Append(list, anomaly_record))],
              raised |-> FALSE]
        ELSE IF list = <<>>
        THEN [agg |-> a, raised |-> TRUE]
        ELSE IF \/ anomaly_score > last.anomaly_score
                \/ anomaly_score = last.anomaly_score /\ revenue > last.revenue
        THEN [agg    |-> [a EXCEPT !.anomaly_records =
                              resorted(Append(SubSeq(list, 1, Len(list) - 1), anomaly_record))],
              raised |-> FALSE]
        ELSE [agg |-> a, raised |-> FALSE]

\* fault: the statistical rules open one record early (>= for >)
FaultyAnomalyScore_GateAtHundred(a, record) ==
    LET stat == IF a.records_processed >= StatMinRecords
                THEN _statistical_anomaly_checks(a, record.revenue, record.quantity,
                                                 record.unit_price)
                ELSE <<0, <<>>>>
        disc == _discount_anomaly_checks(record.unit_price, record.discount_percent)
        rev  == _revenue_threshold_anomaly(record.revenue)
        comb == _extreme_combination_anomaly(record.quantity, record.unit_price)
    IN  <<stat[1] + disc[1] + rev[1] + comb[1], stat[2] \o disc[2] \o rev[2] \o comb[2]>>

\* the score and reasons _detect_and_update_anomalies computes for a record
AnomalyScore(a, record) ==
    LET stat == IF a.records_processed > StatMinRecords
                THEN _statistical_anomaly_checks(a, record.revenue, record.quantity,
                                                 record.unit_price)
                ELSE <<0, <<>>>>
        disc == _discount_anomaly_checks(record.unit_price, record.discount_percent)
        rev  == _revenue_threshold_anomaly(record.revenue)
        comb == _extreme_combination_anomaly(record.quantity, record.unit_price)
    IN  <<stat[1] + disc[1] + rev[1] + comb[1], stat[2] \o disc[2] \o rev[2] \o comb[2]>>

\* fault: any score above zero makes a candidate
Faulty_detect_and_update_anomalies_AnyScore(a, record) ==
    LET sc == AnomalyScore(a, record)
        anomaly_record == AnomalyRecord(record, sc[1], sc[2])
        upd == _update_anomaly_records(a, anomaly_record, sc[1], record.revenue)
    IN  IF sc[1] >= 1
        THEN [agg |-> upd.agg, raised |-> upd.raised, offered |-> <<anomaly_record>>]
        ELSE [agg |-> a, raised |-> FALSE, offered |-> <<>>]

\* _detect_and_update_anomalies: [agg, raised, offered]; offered lists the anomaly
\* record handed to _update_anomaly_records, if any
_detect_and_update_anomalies(a, record) ==
    LET sc == AnomalyScore(a, record)
        anomaly_record == AnomalyRecord(record, sc[1], sc[2])
        upd == _update_anomaly_records(a, anomaly_record, sc[1], record.revenue)
    IN  IF sc[1] >= AnomalyMinScore
        THEN [agg |-> upd.agg, raised |-> upd.raised, offered |-> <<anomaly_record>>]
        ELSE [agg |-> a, raised |-> FALSE, offered |-> <<>>]

RequiredFields == {"quantity", "unit_price", "discount_percent", "sale_date", "revenue"}

\* "Update monthly sales": [agg, raised].  A bucket that finalize has already
\* collapsed has no total_discount: the third statement raises KeyError after
\* the first two have taken effect.
UpdateMonthly(a, record) ==
    LET month_key == MonthKey(record.sale_date)
        m0 == DefaultGet(a.monthly_sales, month_key, MonthlyDefault)
        m1 == [m0 EXCEPT !.revenue = @ + record.revenue, !.quantity = @ + record.quantity]
        m2 == [m1 EXCEPT !.total_discount = @ + record.discount_percent,
                         !.num_transactions = @ + 1]
    IN  IF "total_discount" \in DOMAIN m0
        THEN [agg |-> [a EXCEPT !.monthly_sales = DictPut(@, month_key, m2)],
              raised |-> FALSE]
        ELSE [agg |-> [a EXCEPT !.monthly_sales = DictPut(@, month_key, m1)],
              raised |-> TRUE]

\* fault: the product's revenue is overwritten, not accumulated (= for +=)
FaultyUpdateProduct_Overwrites(a, record) ==
    LET p0 == DefaultGet(a.product_sales, record.product_name, ProductDefault)
    IN  [a EXCEPT !.product_sales = DictPut(@, record.product_name,
            [p0 EXCEPT !.revenue = record.revenue, !.quantity = @ + record.quantity])]

\* "Update product sales"
UpdateProduct(a, record) ==
    LET p0 == DefaultGet(a.product_sales, record.product_name, ProductDefault)
    IN  [a EXCEPT !.product_sales = DictPut(@, record.product_name,
            [p0 EXCEPT !.revenue = @ + record.revenue, !.quantity = @ + record.quantity])]

\* fault: the region's quantity is not accumulated
FaultyUpdateRegion_NoQuantity(a, record) ==
    LET r0 == DefaultGet(a.region_sales, record.region, RegionDefault)
    IN  [a EXCEPT !.region_sales = DictPut(@, record.region,
            [r0 EXCEPT !.revenue = @ + record.revenue])]

\* "Update regional sales"
UpdateRegion(a, record) ==
    LET r0 == DefaultGet(a.region_sales, record.region, RegionDefault)
    IN  [a EXCEPT !.region_sales = DictPut(@, record.region,
            [r0 EXCEPT !.revenue = @ + record.revenue, !.quantity = @ + record.quantity])]

\* "Update category discounts": [agg, raised].  A collapsed bucket has no
\* total_discount_revenue: the first statement raises KeyError.
UpdateCategory(a, record) ==
    LET c0 == DefaultGet(a.category_discounts, record.category, CategoryDefault)
        c1 == [c0 EXCEPT !.total_discount_revenue = @ + record.revenue * record.discount_percent,
                         !.total_revenue = @ + record.revenue,
                         !.num_transactions = @ + 1]
    IN  IF "total_discount_revenue" \in DOMAIN c0
        THEN [agg |-> [a EXCEPT !.category_discounts = DictPut(@, record.category, c1)],
              raised |-> FALSE]
        ELSE [agg |-> a, raised |-> TRUE]

\* _process_single_record: [agg, raised, offered].  The statements run in the
\* order of the source; a raise keeps the effects of the statements before it.
_process_single_record(a, record) ==
    LET a1 == _update_statistics(a, record.revenue, record.quantity, record.unit_price)
        m  == UpdateMonthly(a1, record)
        a4 == UpdateRegion(UpdateProduct(m.agg, record), record)
        c  == UpdateCategory(a4, record)
    IN  IF record.missing \cap RequiredFields # {}
        THEN [agg |-> a, raised |-> TRUE, offered |-> <<>>]
        ELSE IF m.raised
        THEN [agg |-> m.agg, raised |-> TRUE, offered |-> <<>>]
        ELSE IF c.raised
        THEN [agg |-> c.agg, raised |-> TRUE, offered |-> <<>>]
        ELSE _detect_and_update_anomalies(c.agg, record)

\* one iteration of the loop of process_chunk: the except clause skips the record
\* and leaves records_processed alone
ProcessOne(a, record) ==
    LET res == _process_single_record(a, record)
    IN  [agg     |-> IF res.raised THEN res.agg
                     ELSE [res.agg EXCEPT !.records_processed = @ + 1],
         offered |-> res.offered]

\* process_chunk: [agg, offered].  The loop over the chunk, in order.  The chunk
\* is split in halves, and the first half is evaluated before the second (the
\* test on records_processed is always true), only to keep TLC's evaluation of
\* a long chunk shallow.
RECURSIVE process_chunk(_, _)
process_chunk(a, chunk) ==
    IF chunk = <<>>
    THEN [agg |-> a, offered |-> <<>>]
    ELSE IF Len(chunk) = 1
    THEN ProcessOne(a, chunk[1])
    ELSE LET half  == Len(chunk) \div 2
             first == process_chunk(a, SubSeq(chunk, 1, half))
             rest  == process_chunk(first.agg, SubSeq(chunk, half + 1, Len(chunk)))
         IN  IF first.agg.records_processed >= 0
             THEN [agg |-> rest.agg, offered |-> first.offered \o rest.offered]
             ELSE first

\* a ratio n / d, kept as a fraction
Ratio(n, d) == [n |-> n, d |-> d]

RECURSIVE FaultyFinalizeMonthly_Tolerant(_)
\* fault: a bucket without its accumulators is given avg_discount 0.0 (get
\* with a default for the subscript)
FaultyFinalizeMonthly_Tolerant(entries) ==
    IF entries = <<>>
    THEN [entries |-> <<>>, raised |-> FALSE]
    ELSE LET data == entries[1].val
             done == [revenue      |-> data.revenue,
                      quantity     |-> data.quantity,
                      avg_discount |-> IF "num_transactions" \in DOMAIN data
                                          /\ data.num_transactions > 0
                                       THEN Ratio(data.total_discount, data.num_transactions)
                                       ELSE Ratio(0, 1)]
             rest == FaultyFinalizeMonthly_Tolerant(Tail(entries))
         IN  [entries |-> <<[key |-> entries[1].key, val |-> done]>> \o rest.entries,
              raised  |-> rest.raised]

\* the monthly loop of finalize_aggregations: [entries, raised]; a bucket
\* without num_transactions raises KeyError before it is touched
RECURSIVE FinalizeMonthly(_)
FinalizeMonthly(entries) ==
    IF entries = <<>>
    THEN [entries |-> <<>>, raised |-> FALSE]
    ELSE LET data == entries[1].val
             done == [revenue      |-> data.revenue,
                      quantity     |-> data.quantity,
                      avg_discount |-> IF data.num_transactions > 0
                                       THEN Ratio(data.total_discount, data.num_transactions)
                                       ELSE Ratio(0, 1)]
             rest == FinalizeMonthly(Tail(entries))
         IN  IF "num_transactions" \notin DOMAIN data
             THEN [entries |-> entries, raised |-> TRUE]
             ELSE [entries |-> <<[key |-> entries[1].key, val |-> done]>> \o rest.entries,
                   raised  |-> rest.raised]

\* the category loop of finalize_aggregations: [entries, raised]
RECURSIVE FinalizeCategory(_)
FinalizeCategory(entries) ==
    IF entries = <<>>
    THEN [entries |-> <<>>, raised |-> FALSE]
    ELSE LET data == entries[1].val
             done == [avg_discount |-> IF data.total_revenue > 0
                                       THEN Ratio(data.total_discount_revenue, data.total_revenue)
                                       ELSE Ratio(0, 1)]
             rest == FinalizeCategory(Tail(entries))
         IN  IF "total_revenue" \notin DOMAIN data
             THEN [entries |-> entries, raised |-> TRUE]
             ELSE [entries |-> <<[key |-> entries[1].key, val |-> done]>> \o rest.entries,
                   raised  |-> rest.raised]

\* the sort key of the top products list
ProductKey(item) == <<item.val.revenue>>
ProductKeys(s) == [i \in 1..Len(s) |-> ProductKey(s[i])]

\* sorted(product_sales.items(), key=revenue, reverse=True)[:top_products_limit];
\* the list holds the product buckets by reference, so it is kept as keys
TopProductKeys(a) ==
    LET top == Slice(SortedDesc(a.product_sales, ProductKeys(a.product_sales)),
                         a.top_products_limit)
    IN  [i \in 1..Len(top) |-> top[i].key]

\* aggregator.top_products as a reader sees it: (name, bucket) pairs
TopProducts(a) ==
    [i \in 1..Len(a.top_products) |->
        [key |-> a.top_products[i], val |-> DictGet(a.product_sales, a.top_products[i])]]

\* _log_summary_statistics divides by records_processed when any record has
\* been counted in revenue_stats
LogSummaryRaises(a) == a.revenue_stats.count > 0 /\ a.records_processed = 0

\* finalize_aggregations: [agg, raised]
finalize_aggregations(a) ==
    LET m  == FinalizeMonthly(a.monthly_sales)
        a1 == [a EXCEPT !.monthly_sales = m.entries]
        c  == FinalizeCategory(a1.category_discounts)
        a2 == [a1 EXCEPT !.category_discounts = c.entries]
        a3 == [a2 EXCEPT !.top_products = TopProductKeys(a2), !.has_top_products = TRUE]
    IN  IF m.raised THEN [agg |-> a1, raised |-> TRUE]
        ELSE IF c.raised THEN [agg |-> a2, raised |-> TRUE]
        ELSE [agg |-> a3, raised |-> LogSummaryRaises(a3)]

\* get_aggregation_summary
get_aggregation_summary(a) ==
    [records_processed |-> a.records_processed,
     monthly_periods   |-> Len(a.monthly_sales),
     unique_products   |-> Len(a.product_sales),
     regions           |-> Len(a.region_sales),
     categories        |-> Len(a.category_discounts),
     anomaly_records   |-> Len(a.anomaly_records),
     top_products      |-> IF a.has_top_products THEN Len(a.top_products) ELSE 0]

-----------------------------------------------------------------------------
(* Cleaned records. *)

\* a datetime
DateTime(year, month, day, hour, minute, second) ==
    [year |-> year, month |-> month, day |-> day,
     hour |-> hour, minute |-> minute, second |-> second]
Date(year, month, day) == DateTime(year, month, day, 0, 0, 0)

\* the value _clean_email gives a missing or malformed address; a string that
\* the program inspects is the sequence of its characters
Anonymous == <<"a", "n", "o", "n", "y", "m", "o", "u", "s">>

\* step 6 of clean_record: quantity * unit_price * (1 - discount_percent)
Revenue(quantity, unit_price, discount_percent) ==
    quantity * unit_price * (10 - discount_percent)

CleanedRecord(order_id, product_name, category, region, quantity, unit_price, discount_percent, sale_date, customer_email) ==
    [order_id         |-> order_id,
     product_name     |-> product_name,
     category         |-> category,
     region           |-> region,
     quantity         |-> quantity,
     unit_price       |-> unit_price,
     discount_percent |-> discount_percent,
     sale_date        |-> sale_date,
     customer_email   |-> customer_email,
     revenue          |-> Revenue(quantity, unit_price, discount_percent),
     missing          |-> {}]

-----------------------------------------------------------------------------
(* Raw values of a row, as clean_record may be given them. *)

RawNone == [t |-> "none"]
\* an int or a finite float, in tenths
RawNum(v) == [t |-> "num", v |-> v]
\* float('inf')
RawInf == [t |-> "inf"]
\* a str: a character sequence, a name or a date text (see the header)
RawStr(s) == [t |-> "str", s |-> s]

Digits == <<"0", "1", "2", "3", "4", "5", "6", "7", "8", "9">>
IsDigit(c) == c \in Range(Digits)
DigitValue(c) == (CHOOSE i \in 1..Len(Digits) : Digits[i] = c) - 1
\* the only whitespace of the model's strings is the blank
IsSpace(c) == c = " "

Uppers == <<"A", "B", "C", "X">>
Lowers == <<"a", "b", "c", "x">>
\* str.lower() on one character
LowerChar(c) ==
    IF \E i \in 1..Len(Uppers) : Uppers[i] = c
    THEN Lowers[CHOOSE i \in 1..Len(Uppers) : Uppers[i] = c]
    ELSE c
Lower(s) == [i \in 1..Len(s) |-> LowerChar(s[i])]

RECURSIVE LStrip(_)
LStrip(s) == IF s # <<>> /\ IsSpace(s[1]) THEN LStrip(Tail(s)) ELSE s
RECURSIVE RStrip(_)
RStrip(s) ==
    IF s # <<>> /\ IsSpace(s[Len(s)]) THEN RStrip(SubSeq(s, 1, Len(s) - 1)) ELSE s
\* str.strip()
Strip(s) == RStrip(LStrip(s))

\* the longest run of digits float() can take without OverflowError: the
\* largest float is below 1.8e308
FloatMaxDigits == 309
\* every int too large for float(), as one value above all others of the model
HugeInt == 1000000000

\* int() of a string of digits: of nine digits at most, or of more than
\* FloatMaxDigits digits
RECURSIVE ParseDigits(_)
ParseDigits(ds) ==
    IF ds = <<>> THEN 0
    ELSE IF Len(ds) > FloatMaxDigits /\ ds[1] # "0" THEN HugeInt
    ELSE ParseDigits(SubSeq(ds, 1, Len(ds) - 1)) * 10 + DigitValue(ds[Len(ds)])

\* float() of a string, in tenths: outer blanks, a sign, digits with at most one
\* point and at least one digit; anything else is a ValueError (None here).  The
\* model's strings have no exponent, no "inf" or "nan" and at most one decimal.
ParseFloat(s) ==
    LET t      == Strip(s)
        signed == t # <<>> /\ t[1] \in {"-", "+"}
        body   == IF signed THEN Tail(t) ELSE t
        points == {i \in 1..Len(body) : body[i] = "."}
        cut    == IF points = {} THEN Len(body) + 1 ELSE CHOOSE i \in points : TRUE
        whole  == SubSeq(body, 1, cut - 1)
        frac   == SubSeq(body, cut + 1, Len(body))
        value  == ParseDigits(whole) * 10 + (IF frac = <<>> THEN 0 ELSE DigitValue(frac[1]))
    IN  IF /\ Cardinality(points) <= 1
           /\ \A i \in 1..Len(body) : IsDigit(body[i]) \/ body[i] = "."
           /\ Len(whole) + Len(frac) >= 1
        THEN Some(IF signed /\ t[1] = "-" THEN 0 - value ELSE value)
        ELSE None

-----------------------------------------------------------------------------
(* DataCleaner (cleaning.py). *)

REGION_MAP ==
    << [key |-> "nort", val |-> "North"], [key |-> "north", val |-> "North"],
       [key |-> "nOrth", val |-> "North"],
       [key |-> "sout", val |-> "South"], [key |-> "south", val |-> "South"],
       [key |-> "sOuth", val |-> "South"],
       [key |-> "eas", val |-> "East"], [key |-> "east", val |-> "East"],
       [key |-> "eAst", val |-> "East"],
       [key |-> "wes", val |-> "West"], [key |-> "west", val |-> "West"],
       [key |-> "wEst", val |-> "West"] >>

PRODUCT_NAME_MAP ==
    << [key |-> "laptop pro", val |-> "Laptop Pro 15"],
       [key |-> "smartfone x", val |-> "Smartphone X"],
       [key |-> "smart-phone x", val |-> "Smartphone X"],
       [key |-> "smartphone-x", val |-> "Smartphone X"],
       [key |-> "wirless headphones", val |-> "Wireless Headphones"],
       [key |-> "wireless headphones", val |-> "Wireless Headphones"],
       [key |-> "4k led tv", val |-> "4K LED TV"],
       [key |-> "4ktv", val |-> "4K LED TV"],
       [key |-> "blenderpro", val |-> "Blender Pro"],
       [key |-> "blender pro", val |-> "Blender Pro"],
       [key |-> "cofee maker elite", val |-> "Coffee Maker Elite"],
       [key |-> "coffee maker elite", val |-> "Coffee Maker Elite"],
       [key |-> "mens t-shirt (blue)", val |-> "Men's T-shirt (Blue)"],
       [key |-> "t-shirt (blue)", val |-> "Men's T-shirt (Blue)"] >>

CATEGORY_MAP ==
    << [key |-> "electronics", val |-> "Electronics"],
       [key |-> "home appliance", val |-> "Home Appliance"],
       [key |-> "home appliances", val |-> "Home Appliance"],
       [key |-> "fashion", val |-> "Fashion"],
       [key |-> "clothing", val |-> "Fashion"] >>

\* value.strip() of a name: the names of the model with outer blanks
StripName(s) ==
    CASE s = "  Smartfone X " -> "Smartfone X"
      [] s = "South "         -> "South"
      [] s = "   "            -> ""
      [] OTHER                -> s

\* value.lower() of a stripped name: the names of the model with capitals
LowerName(s) ==
    CASE s = "Smartfone X" -> "smartfone x"
      [] s = "South"       -> "south"
      [] s = "ELECTRONICS" -> "electronics"
      [] s = "Gadget One"  -> "gadget one"
      [] OTHER             -> s

\* clean_value.title(), for the lower-case names of the model that no map holds
TitleName(s) ==
    CASE s = "gadget one" -> "Gadget One"
      [] s = "toys"       -> "Toys"
      [] s = "central"    -> "Central"

_standardize_string(value, mapping) ==
    IF value.t # "str" THEN None
    ELSE IF StripName(value.s) = "" THEN None
    ELSE LET clean_value == LowerName(StripName(value.s))
         IN  IF DictHas(mapping, clean_value)
             THEN Some(DictGet(mapping, clean_value))
             ELSE Some(TitleName(clean_value))

\* _clean_quantity: [value, raised]; int(float('inf')) raises OverflowError
_clean_quantity(value) ==
    CASE value.t = "num" ->
            [value  |-> IF value.v > 0 THEN Some(value.v \div 10) ELSE None,
             raised |-> FALSE]
      [] value.t = "inf" -> [value |-> None, raised |-> TRUE]
      [] value.t = "str" ->
            LET cleaned_value == SelectSeq(value.s, IsDigit)
                quantity      == ParseDigits(cleaned_value)
            IN  [value  |-> IF Strip(value.s) # <<>> /\ Strip(value.s)[1] = "-" THEN None
                            ELSE IF cleaned_value = <<>> THEN None
                            ELSE IF quantity > 0 THEN Some(quantity)
                            ELSE None,
                 raised |-> FALSE]
      [] OTHER -> [value |-> None, raised |-> FALSE]

\* _clean_float, on every value but float('inf'), which the model does not
\* give a unit_price
_clean_float(value) ==
    CASE value.t = "num"  -> Some(value.v)
      [] value.t = "str"  -> ParseFloat(value.s)
      [] value.t = "none" -> None

\* fault: the upper bound 1.0 is left out of the accepted discounts
Faulty_clean_discount_OpenAbove(value) ==
    LET discount == CASE value.t = "num"  -> Some(value.v)
                      [] value.t = "str"  -> ParseFloat(value.s)
                      [] OTHER            -> None
    IN  IF value.t = "inf" \/ IsNone(discount) THEN None
        ELSE IF 0 <= discount[1] /\ discount[1] < 10 THEN discount
        ELSE None

_clean_discount(value) ==
    LET discount == CASE value.t = "num"  -> Some(value.v)
                      [] value.t = "str"  -> ParseFloat(value.s)
                      [] OTHER            -> None
    IN  IF value.t = "inf" \/ IsNone(discount) THEN None
        ELSE IF 0 <= discount[1] /\ discount[1] <= 10 THEN discount
        ELSE None

\* the text of a date: three numeric fields a, b, c as written, joined by sep; mon
\* says that b is written as a month abbreviation (Jan = 1); time is <<>> or the
\* <<hour, minute, second>> written after a blank
DateText(sep, a, b, c, mon, time) ==
    [sep |-> sep, a |-> a, b |-> b, c |-> c, mon |-> mon, time |-> time]
\* the empty string, and a text that no format matches
EmptyText == DateText("", 0, 0, 0, FALSE, <<>>)
GarbledText == DateText("?", 0, 0, 0, FALSE, <<>>)

IsLeap(y) == y % 4 = 0 /\ (y % 100 # 0 \/ y % 400 = 0)
DaysInMonth(y, m) ==
    CASE m \in {4, 6, 9, 11} -> 30
      [] m = 2               -> IF IsLeap(y) THEN 29 ELSE 28
      [] OTHER               -> 31
\* %Y takes four digits, %m 1..12, %d a day of that month
ValidDate(y, m, d) ==
    /\ 1000 <= y /\ y <= 9999
    /\ 1 <= m /\ m <= 12
    /\ 1 <= d /\ d <= DaysInMonth(y, m)
ValidTime(time) ==
    /\ 0 <= time[1] /\ time[1] <= 23
    /\ 0 <= time[2] /\ time[2] <= 59
    /\ 0 <= time[3] /\ time[3] <= 59

date_formats ==
    << "%Y-%m-%d %H:%M:%S", "%Y/%m/%d", "%Y-%m-%d", "%d-%b-%Y", "%m/%d/%Y", "%d/%m/%Y" >>

\* datetime.strptime(text, fmt): a datetime, or None for its ValueError
strptime(text, fmt) ==
    LET ymd == IF ValidDate(text.a, text.b, text.c)
               THEN Some(Date(text.a, text.b, text.c)) ELSE None
        dmy == IF ValidDate(text.c, text.b, text.a)
               THEN Some(Date(text.c, text.b, text.a)) ELSE None
        mdy == IF ValidDate(text.c, text.a, text.b)
               THEN Some(Date(text.c, text.a, text.b)) ELSE None
    IN  CASE fmt = "%Y-%m-%d %H:%M:%S" ->
                IF /\ text.sep = "-" /\ ~text.mon /\ text.time # <<>>
                   /\ ValidDate(text.a, text.b, text.c) /\ ValidTime(text.time)
                THEN Some(DateTime(text.a, text.b, text.c,
                                   text.time[1], text.time[2], text.time[3]))
                ELSE None
          [] fmt = "%Y/%m/%d" ->
                IF text.sep = "/" /\ ~text.mon /\ text.time = <<>> THEN ymd ELSE None
          [] fmt = "%Y-%m-%d" ->
                IF text.sep = "-" /\ ~text.mon /\ text.time = <<>> THEN ymd ELSE None
          [] fmt = "%d-%b-%Y" ->
                IF text.sep = "-" /\ text.mon /\ text.time = <<>> THEN dmy ELSE None
          [] fmt = "%m/%d/%Y" ->
                IF text.sep = "/" /\ ~text.mon /\ text.time = <<>> THEN mdy ELSE None
          [] fmt = "%d/%m/%Y" ->
                IF text.sep = "/" /\ ~text.mon /\ text.time = <<>> THEN dmy ELSE None

\* _clean_date: the first format that parses the text
_clean_date(value) ==
    LET parses == {i \in 1..Len(date_formats) : ~IsNone(strptime(value.s, date_formats[i]))}
        first  == CHOOSE i \in parses : \A j \in parses : i <= j
    IN  IF value.t # "str" THEN None
        ELSE IF value.s = EmptyText THEN None
        ELSE IF parses = {} THEN None
        ELSE strptime(value.s, date_formats[first])

\* email.split('@')[-1]: what follows the last '@'
AfterLastAt(email) ==
    LET ats == {i \in 1..Len(email) : email[i] = "@"}
        last == CHOOSE i \in ats : \A j \in ats : j <= i
    IN  IF ats = {} THEN email ELSE SubSeq(email, last + 1, Len(email))

_clean_email(value) ==
    IF value.t # "str" THEN Anonymous
    ELSE IF Strip(value.s) = <<>> THEN Anonymous
    ELSE LET email == Lower(Strip(value.s))
         IN  IF "@" \in Range(email) /\ "." \in Range(AfterLastAt(email))
             THEN email
             ELSE Anonymous

\* DataCleaner.__init__
DataCleaner == [records_processed |-> 0, records_dropped |-> 0]

\* fault: a field that is 0 counts as missing ("not val" for "val is None")
FaultyDropRule_Falsy(quantity, unit_price, discount_percent, sale_date) ==
    \/ IsNone(quantity) \/ IsNone(unit_price) \/ IsNone(discount_percent) \/ IsNone(sale_date)
    \/ unit_price = Some(0) \/ discount_percent = Some(0)

\* step 5 of clean_record: any critical field is None
DropRule(quantity, unit_price, discount_percent, sale_date) ==
    IsNone(quantity) \/ IsNone(unit_price) \/ IsNone(discount_percent) \/ IsNone(sale_date)

\* fault: the drop of step 5 is not counted
FaultyValidationDrop_NotCounted(c) ==
    [cleaner |-> c, result |-> None, raised |-> FALSE]

\* step 5 of clean_record, a critical field missing: count the drop, return None
ValidationDrop(c) ==
    [cleaner |-> [c EXCEPT !.records_dropped = @ + 1], result |-> None, raised |-> FALSE]

\* fault: no except clause, the exception leaves clean_record
FaultyExceptClause_Propagates(c) ==
    [cleaner |-> c, result |-> None, raised |-> TRUE]

\* the except clause of clean_record: count the drop, return None
ExceptClause(c) ==
    [cleaner |-> [c EXCEPT !.records_dropped = @ + 1], result |-> None, raised |-> FALSE]

\* clean_record: [cleaner, result, raised]; result is None or the cleaned record,
\* raised says that an exception left the method.  Two statements of the try
\* block can raise: int(value) in _clean_quantity, and the product of step 6,
\* which converts quantity to a float (OverflowError).
clean_record(c, record) ==
    LET c1               == [c EXCEPT !.records_processed = @ + 1]
        product_name     == _standardize_string(record.product_name, PRODUCT_NAME_MAP)
        category         == _standardize_string(record.category, CATEGORY_MAP)
        region           == _standardize_string(record.region, REGION_MAP)
        quantity         == _clean_quantity(record.quantity)
        unit_price       == _clean_float(record.unit_price)
        discount_percent == _clean_discount(record.discount_percent)
        sale_date        == _clean_date(record.sale_date)
        customer_email   == _clean_email(record.customer_email)
    IN  IF quantity.raised THEN ExceptClause(c1)
        ELSE IF DropRule(quantity.value, unit_price, discount_percent, sale_date)
        THEN ValidationDrop(c1)
        ELSE IF quantity.value[1] >= HugeInt THEN ExceptClause(c1)
        ELSE [cleaner |-> c1,
              result  |-> Some(CleanedRecord(record.order_id, product_name, category,
                                             region, quantity.value[1], unit_price[1],
                                             discount_percent[1], sale_date[1],
                                             customer_email)),
              raised  |-> FALSE]

\* get_statistics; success_rate is a percentage kept as a fraction
get_statistics(c) ==
    [records_processed |-> c.records_processed,
     records_dropped   |-> c.records_dropped,
     records_cleaned   |-> c.records_processed - c.records_dropped,
     success_rate      |-> IF c.records_processed > 0
                           THEN Ratio((c.records_processed - c.records_dropped) * 100,
                                      c.records_processed)
                           ELSE Ratio(0, 1)]

-----------------------------------------------------------------------------
(* Cleaned records given to a directly driven DataAggregator. *)

\* an ordinary sale: 1 x 100.0 at 10% off
RecNormal ==
    CleanedRecord("ORD-1", Some("Laptop Pro 15"), Some("Electronics"), Some("North"),
                  1, 1000, 1, Date(2024, 1, 15), <<"a", "@", "b", ".", "c">>)
\* 1 x 2000.0 at 60% off: high-value item with a large discount
RecDiscountA ==
    CleanedRecord("ORD-2", Some("Smartphone X"), Some("Electronics"), Some("South"),
                  1, 20000, 6, Date(2024, 1, 20), Anonymous)
\* the same quantity, price and discount as RecDiscountA, another product
RecDiscountB ==
    CleanedRecord("ORD-3", Some("Blender Pro"), Some("Home Appliance"), Some("North"),
                  1, 20000, 6, Date(2024, 2, 5), Anonymous)
\* 1 x 2000.0 at 80% off: both discount rules
RecSteep ==
    CleanedRecord("ORD-4", Some("Smartphone X"), Some("Electronics"), Some("South"),
                  1, 20000, 8, Date(2024, 2, 7), <<"x", "@", "b", ".", "c">>)
\* a negative unit price and no product name, as clean_record lets through
RecNegative ==
    CleanedRecord("ORD-5", None, Some("Fashion"), Some("West"),
                  2, -500, 2, Date(2024, 2, 9), Anonymous)
\* a record whose revenue is None
RecBad == [RecNormal EXCEPT !.order_id = "ORD-6", !.missing = {"revenue"}]

SampleRecords ==
    {RecNormal, RecDiscountA, RecDiscountB, RecSteep, RecNegative, RecBad}

\* one chunk of ordinary sales, long enough to open the statistical rules
RECURSIVE Repeat(_, _)
Repeat(x, n) ==
    IF n = 0 THEN <<>>
    ELSE IF n % 2 = 0 THEN LET h == Repeat(x, n \div 2) IN h \o h
    ELSE Append(Repeat(x, n - 1), x)

WarmChunk == Repeat(RecNormal, StatMinRecords + 1)

RECURSIVE SeqsUpTo(_, _)
SeqsUpTo(S, n) ==
    IF n = 0 THEN {<<>>}
    ELSE LET shorter == SeqsUpTo(S, n - 1)
         IN  shorter \cup {Append(s, x) : s \in shorter, x \in S}

IsValid(record) == record.missing \cap RequiredFields = {}

-----------------------------------------------------------------------------
(* A DataAggregator driven directly, as the unit tests do: run 1's object.  *)
(* The class has no guard on the order of its calls, so process_chunk and   *)
(* finalize_aggregations are enabled in every state; pc records the calls:  *)
(*   "accumulating"     process_chunk calls only                            *)
(*   "finalized"        then finalize_aggregations, every call of it        *)
(*                      returning                                           *)
(*   "finalize_raised"  then finalize_aggregations, some call of it raising *)
(*   "reused"           process_chunk called after finalize_aggregations    *)

\* records fed so far, the warm-up chunk not counted
FedCount(r) ==
    IF Len(fed[r]) > StatMinRecords THEN Len(fed[r]) - Len(WarmChunk) ELSE Len(fed[r])

DirectChunks(r) ==
    {c \in SeqsUpTo(SampleRecords, MaxChunkLen) :
        c # <<>> /\ FedCount(r) + Len(c) <= MaxRecords}
    \cup (IF fed[r] = <<>> THEN {WarmChunk} ELSE {})

\* the I/O failures that await a run.  reader: -1 for none, 0 when the input
\* path does not exist, k when reading data row k fails; writer: 0 for none, k
\* when the k-th output file cannot be opened for writing
Fault(reader, writer) == [reader |-> reader, writer |-> writer]
NoFault == Fault(0 - 1, 0)

Idle ==
    /\ cleaner = [r \in Runs |-> DataCleaner]
    /\ chunk_size = [r \in Runs |-> 1]
    /\ source = [r \in Runs |-> <<>>]
    /\ reader_pos = [r \in Runs |-> 0]
    /\ raw_chunk = [r \in Runs |-> <<>>]
    /\ cleaned_chunk = [r \in Runs |-> <<>>]
    /\ last_clean = [r \in Runs |-> <<>>]
    /\ clean_calls = [r \in Runs |->
                        [calls |-> 0, rejected |-> 0, returned |-> 0, caught |-> 0]]
    /\ fed = [r \in Runs |-> <<>>]
    /\ offered = [r \in Runs |-> <<>>]
    /\ faults = [r \in Runs |-> NoFault]
    /\ yielded = [r \in Runs |-> <<>>]
    /\ disk = [r \in Runs |-> <<>>]
    /\ results = [r \in Runs |-> <<>>]

AggInit ==
    /\ ServerStart
    /\ \E al \in 0..MaxLimit, tl \in (-1)..MaxLimit :
          aggregator = [r \in Runs |-> DataAggregator(al, tl)]
    /\ pc = [r \in Runs |-> "accumulating"]
    /\ Idle

AggProcessChunk ==
    \E chunk \in DirectChunks(1) :
        LET res == process_chunk(aggregator[1], chunk)
        IN  /\ aggregator' = [aggregator EXCEPT ![1] = res.agg]
            /\ pc' = [pc EXCEPT ![1] = IF @ = "accumulating" THEN @ ELSE "reused"]
            /\ fed' = [fed EXCEPT ![1] = @ \o chunk]
            /\ offered' = [offered EXCEPT ![1] = @ \o res.offered]
            /\ UNCHANGED <<api_vars, cleaner, chunk_size, source, reader_pos, raw_chunk,
                           cleaned_chunk, last_clean, clean_calls,
                           faults, yielded, disk, results>>

AggFinalize ==
    LET res == finalize_aggregations(aggregator[1])
    IN  /\ aggregator' = [aggregator EXCEPT ![1] = res.agg]
        /\ pc' = [pc EXCEPT ![1] = IF @ = "reused" THEN @
                                   ELSE IF res.raised THEN "finalize_raised"
                                   ELSE IF @ = "accumulating" THEN "finalized"
                                   ELSE @]
        /\ UNCHANGED <<api_vars, cleaner, chunk_size, source, reader_pos, raw_chunk,
                       cleaned_chunk, last_clean, clean_calls, fed, offered,
                       faults, yielded, disk, results>>

AggNext == AggProcessChunk \/ AggFinalize

AggSpec == AggInit /\ [][AggNext]_vars

-----------------------------------------------------------------------------
(* A DataAggregator scored: an opening chunk of ordinary sales that ends    *)
(* just below, at or above the threshold of the statistical rules, or no    *)
(* such chunk, and then records picked to trigger the rules one by one.     *)

\* 1 x 100.0 at 80% off: the high-discount rule alone
ScoreSteepCheap ==
    CleanedRecord("ORD-11", Some("Laptop Pro 15"), Some("Electronics"), Some("North"),
                  1, 1000, 8, Date(2024, 1, 16), Anonymous)
\* 60 x 1000.0 at full price: revenue 60000.0, the revenue rule alone
ScoreHighRevenue ==
    CleanedRecord("ORD-12", Some("Laptop Pro 15"), Some("Electronics"), Some("North"),
                  60, 10000, 0, Date(2024, 1, 17), Anonymous)
\* 600 x 500.0 at 80% off: revenue 60000.0, the two rules of weight 1
ScoreTwoWeightOnes ==
    CleanedRecord("ORD-13", Some("Blender Pro"), Some("Home Appliance"), Some("North"),
                  600, 5000, 8, Date(2024, 1, 18), Anonymous)
\* 101 x 600.0 at full price: the combination rule, and the revenue rule
ScoreCombination ==
    CleanedRecord("ORD-14", Some("Blender Pro"), Some("Home Appliance"), Some("South"),
                  101, 6000, 0, Date(2024, 1, 19), Anonymous)
\* 1 x 520.0 at 10% off: above five times the mean price of 101 ordinary
\* sales, below five times the mean once it is counted itself
ScoreEdgePrice ==
    CleanedRecord("ORD-15", Some("Laptop Pro 15"), Some("Electronics"), Some("North"),
                  1, 5200, 1, Date(2024, 1, 21), Anonymous)

ScoreRecords ==
    {RecNormal, RecDiscountA, ScoreSteepCheap, ScoreHighRevenue, ScoreTwoWeightOnes,
     ScoreCombination, ScoreEdgePrice}

ScoreInit ==
    /\ ServerStart
    /\ \E al \in 1..MaxLimit : aggregator = [r \in Runs |-> DataAggregator(al, 1)]
    /\ pc = [r \in Runs |-> "accumulating"]
    /\ Idle

\* process_chunk of the opening chunk
ScoreWarmUp ==
    \E n \in {StatMinRecords - 1, StatMinRecords, StatMinRecords + 1} :
        LET chunk == Repeat(RecNormal, n)
            res   == process_chunk(aggregator[1], chunk)
        IN  /\ fed[1] = <<>>
            /\ aggregator' = [aggregator EXCEPT ![1] = res.agg]
            /\ fed' = [fed EXCEPT ![1] = chunk]
            /\ offered' = [offered EXCEPT ![1] = res.offered]
            /\ UNCHANGED <<api_vars, cleaner, pc, chunk_size, source, reader_pos, raw_chunk,
                           cleaned_chunk, last_clean, clean_calls,
                           faults, yielded, disk, results>>

\* process_chunk of records picked for the rules: at most MaxScoreRecords of
\* them without an opening chunk, or as many as bring the count that far above
\* the threshold of the statistical rules
ScoreProcessChunk ==
    \E chunk \in SeqsUpTo(ScoreRecords, MaxScoreRecords) :
        LET res   == process_chunk(aggregator[1], chunk)
            total == Len(fed[1]) + Len(chunk)
        IN  /\ chunk # <<>>
            /\ IF Len(fed[1]) < StatMinRecords - 1
               THEN total <= MaxScoreRecords
               ELSE total <= StatMinRecords + 1 + MaxScoreRecords
            /\ aggregator' = [aggregator EXCEPT ![1] = res.agg]
            /\ fed' = [fed EXCEPT ![1] = @ \o chunk]
            /\ offered' = [offered EXCEPT ![1] = @ \o res.offered]
            /\ UNCHANGED <<api_vars, cleaner, pc, chunk_size, source, reader_pos, raw_chunk,
                           cleaned_chunk, last_clean, clean_calls,
                           faults, yielded, disk, results>>

ScoreNext == ScoreWarmUp \/ ScoreProcessChunk

ScoreSpec == ScoreInit /\ [][ScoreNext]_vars

-----------------------------------------------------------------------------
(* What the history says the aggregates must be. *)

\* the records of fed that process_chunk does not skip for a missing field
Ingested(r) == SelectSeq(fed[r], IsValid)

\* the distinct elements of s, in the order of their first occurrence
FirstSeen(s) ==
    LET idx == {i \in 1..Len(s) : \A j \in 1..(i - 1) : s[j] # s[i]}
    IN  [k \in 1..Cardinality(idx) |->
            s[CHOOSE i \in idx : Cardinality({j \in idx : j < i}) = k - 1]]

\* keys, the sort keys of a list in list order, never increase
IsSortedDesc(keys) == \A i, j \in 1..Len(keys) : i < j => ~KeyGt(keys[j], keys[i])

\* the bucket keys of the records of s, in the order of s
MonthsOf(s) == [i \in 1..Len(s) |-> MonthKey(s[i].sale_date)]
ProductsOf(s) == [i \in 1..Len(s) |-> s[i].product_name]
RegionsOf(s) == [i \in 1..Len(s) |-> s[i].region]

\* sums of revenue and quantity over the records of s whose key (keys[i]) is k
RevenueOfKey(s, keys, k) ==
    SumSeq([i \in 1..Len(s) |-> IF keys[i] = k THEN s[i].revenue ELSE 0])
QuantityOfKey(s, keys, k) ==
    SumSeq([i \in 1..Len(s) |-> IF keys[i] = k THEN s[i].quantity ELSE 0])

\* a bucket per key that occurs in keys and no other, each with the sums of its key
BucketsMatch(dict, s, keys) ==
    /\ DictKeys(dict) = Range(keys)
    /\ \A k \in DictKeys(dict) :
          /\ DictGet(dict, k).revenue = RevenueOfKey(s, keys, k)
          /\ DictGet(dict, k).quantity = QuantityOfKey(s, keys, k)

TotalQuantity(dict) == SumSeq([i \in 1..Len(dict) |-> dict[i].val.quantity])

\* the product buckets the history implies, in first-ingestion order
ExpectedProducts(r) ==
    LET ing   == Ingested(r)
        names == FirstSeen(ProductsOf(ing))
    IN  [k \in 1..Len(names) |->
            [key |-> names[k],
             val |-> [revenue  |-> RevenueOfKey(ing, ProductsOf(ing), names[k]),
                      quantity |-> QuantityOfKey(ing, ProductsOf(ing), names[k])]]]

\* finalize_aggregations has been called and process_chunk has not been since
Finalized(r) == aggregator[r].has_top_products /\ pc[r] # "reused"

-----------------------------------------------------------------------------
(* Claims about the DataAggregator. *)

\* C1: with anomaly_limit >= 1 the anomaly list never holds more than
\* anomaly_limit entries and is sorted by anomaly score descending, then revenue
\* descending, after every process_chunk call and after finalize.
C1_AnomalyListBoundedSorted ==
    \A r \in Runs :
        LET a == aggregator[r]
        IN  a.anomaly_limit >= 1 =>
                /\ Len(a.anomaly_records) <= a.anomaly_limit
                /\ IsSortedDesc(AnomalyKeys(a.anomaly_records))

\* a finalized aggregator whose full list holds two scores and has turned
\* candidates away
C1_Witness ==
    LET a == aggregator[1]
    IN  /\ pc[1] = "finalized"
        /\ a.anomaly_limit >= 2
        /\ Len(a.anomaly_records) = a.anomaly_limit
        /\ Len(offered[1]) > a.anomaly_limit
        /\ a.anomaly_records[1].anomaly_score > a.anomaly_records[2].anomaly_score

\* C2: with anomaly_limit >= 1 the anomaly list is the first anomaly_limit
\* elements of all candidates offered so far, each with the score it got when
\* ingested, ordered by score descending, revenue descending, arrival ascending:
\* on an exact (score, revenue) tie the first-seen record is kept.
C2_AnomalyListIsTopK ==
    \A r \in Runs :
        LET a == aggregator[r]
        IN  a.anomaly_limit >= 1 =>
                a.anomaly_records = Slice(SortedDesc(offered[r], AnomalyKeys(offered[r])), a.anomaly_limit)

\* a full list kept the earlier of two candidates that tie on (score, revenue),
\* and the aggregator has scored one record with the statistical rules open
C2_Witness ==
    LET a == aggregator[1]
        o == offered[1]
    IN  /\ a.anomaly_limit >= 1
        /\ Len(a.anomaly_records) = a.anomaly_limit
        /\ \E i, j \in 1..Len(o) :
              /\ i < j
              /\ AnomalyKey(o[i]) = AnomalyKey(o[j])
              /\ o[i].order_id # o[j].order_id
              /\ o[i] \in Range(a.anomaly_records)
              /\ o[j] \notin Range(a.anomaly_records)
              /\ "Extremely high unit price" \in Range(o[i].anomaly_reasons)

\* C3: after finalize the top products list has at most top_products_limit
\* entries (min(limit, distinct products) for a positive limit), is sorted by
\* revenue descending, and is a prefix of all product buckets in that order,
\* equal revenues in the order the products were first ingested.
C3_TopProducts ==
    \A r \in Runs :
        LET a   == aggregator[r]
            tp  == TopProducts(a)
            all == SortedDesc(ExpectedProducts(r), ProductKeys(ExpectedProducts(r)))
        IN  Finalized(r) =>
                /\ Len(tp) <= a.top_products_limit
                /\ a.top_products_limit > 0 =>
                       Len(tp) = Min(a.top_products_limit, Len(all))
                /\ IsSortedDesc(ProductKeys(tp))
                /\ Len(tp) <= Len(all) /\ tp = SubSeq(all, 1, Len(tp))

\* C4: after finalize every month, product and region bucket holds the sums of
\* revenue and quantity of exactly the ingested records with that key, and a
\* bucket exists for a key iff some ingested record has it.
C4_BucketsAreSums ==
    \A r \in Runs :
        LET a == aggregator[r]
        IN  Finalized(r) =>
                /\ BucketsMatch(a.monthly_sales, Ingested(r), MonthsOf(Ingested(r)))
                /\ BucketsMatch(a.product_sales, Ingested(r), ProductsOf(Ingested(r)))
                /\ BucketsMatch(a.region_sales, Ingested(r), RegionsOf(Ingested(r)))

\* a finalized aggregator with two months, one of them fed by two records of
\* different products
C4_Witness ==
    LET ing == Ingested(1)
    IN  /\ pc[1] = "finalized"
        /\ Len(aggregator[1].monthly_sales) >= 2
        /\ \E i, j \in 1..Len(ing) :
              /\ i < j
              /\ MonthKey(ing[i].sale_date) = MonthKey(ing[j].sale_date)
              /\ ing[i].product_name # ing[j].product_name

-----------------------------------------------------------------------------
(* A DataCleaner driven directly, as the unit tests do: run 1's object.  A *)
(* caller may pass values of any type.                                      *)

\* a well-formed row
BaseRow ==
    [order_id         |-> "ORD-1",
     product_name     |-> RawStr("laptop pro"),
     category         |-> RawStr("ELECTRONICS"),
     quantity         |-> RawStr(<<"2">>),
     unit_price       |-> RawStr(<<"1", "0", "0">>),
     discount_percent |-> RawStr(<<"0", ".", "1">>),
     region           |-> RawStr("nort"),
     sale_date        |-> RawStr(DateText("-", 2024, 1, 15, FALSE, <<>>)),
     customer_email   |-> RawStr(<<"A", "@", "b", ".", "c">>)]

\* a quantity of one digit more than a float can take
LongDigits == Repeat("9", FloatMaxDigits + 1)

QuantityValues ==
    {RawStr(<<"1", "0">>), RawStr(<<"1", ".", "5">>), RawStr(<<"-", "5">>),
     RawStr(<<" ", "-", "5">>), RawStr(<<"5", "-">>), RawStr(<<"a", "b", "c">>),
     RawStr(<<>>), RawStr(<<"0">>), RawStr(LongDigits),
     RawNum(20), RawNum(27), RawNum(5), RawNum(0), RawNum(-10), RawInf, RawNone}

UnitPriceValues ==
    {RawStr(<<"1", "2", ".", "5">>), RawStr(<<"-", "5">>), RawStr(<<" ", "7", " ">>),
     RawStr(<<"0">>), RawStr(<<"a", "b", "c">>), RawStr(<<>>),
     RawNum(1000), RawNum(-20), RawNone}

DiscountValues ==
    {RawStr(<<"0">>), RawStr(<<"1", ".", "0">>), RawStr(<<"1", ".", "5">>),
     RawStr(<<"-", "0", ".", "1">>), RawStr(<<"x">>),
     RawNum(0), RawNum(10), RawNum(11), RawInf, RawNone}

SaleDateValues ==
    {RawStr(DateText("/", 2024, 2, 5, FALSE, <<>>)),
     RawStr(DateText("-", 2024, 1, 15, FALSE, <<10, 30, 0>>)),
     RawStr(DateText("-", 15, 1, 2024, TRUE, <<>>)),
     RawStr(DateText("/", 1, 15, 2024, FALSE, <<>>)),
     RawStr(DateText("/", 15, 1, 2024, FALSE, <<>>)),
     RawStr(DateText("/", 2, 30, 2024, FALSE, <<>>)),
     RawStr(DateText("-", 2024, 13, 1, FALSE, <<>>)),
     RawStr(GarbledText), RawStr(EmptyText), RawNum(202401150), RawNone}

ProductNameValues ==
    {RawStr("  Smartfone X "), RawStr("Gadget One"), RawStr(""), RawStr("   "),
     RawNum(50), RawNone}
CategoryValues == {RawStr("clothing"), RawStr("toys"), RawStr(""), RawNone}
RegionValues == {RawStr("South "), RawStr("central"), RawStr(""), RawNone}
EmailValues ==
    {RawStr(<<" ", "a", "@", "b", ".", "c", " ">>), RawStr(<<"a", "b", "c">>),
     RawStr(<<"a", "@", "b">>), RawStr(<<>>), RawNum(30), RawNone}

\* the well-formed row, the rows that differ from it in one field, and a row
\* that has lost every field but order_id
RawRows ==
    {BaseRow}
    \cup {[BaseRow EXCEPT !.quantity = v] : v \in QuantityValues}
    \cup {[BaseRow EXCEPT !.unit_price = v] : v \in UnitPriceValues}
    \cup {[BaseRow EXCEPT !.discount_percent = v] : v \in DiscountValues}
    \cup {[BaseRow EXCEPT !.sale_date = v] : v \in SaleDateValues}
    \cup {[BaseRow EXCEPT !.product_name = v] : v \in ProductNameValues}
    \cup {[BaseRow EXCEPT !.category = v] : v \in CategoryValues}
    \cup {[BaseRow EXCEPT !.region = v] : v \in RegionValues}
    \cup {[BaseRow EXCEPT !.customer_email = v] : v \in EmailValues}
    \cup {[f \in DOMAIN BaseRow |-> IF f = "order_id" THEN "ORD-1" ELSE RawNone]}

\* the try block of clean_record ends in its except clause on this row
RaisesInside(row) ==
    \/ _clean_quantity(row.quantity).raised
    \/ /\ ~DropRule(_clean_quantity(row.quantity).value, _clean_float(row.unit_price),
                    _clean_discount(row.discount_percent), _clean_date(row.sale_date))
       /\ _clean_quantity(row.quantity).value[1] >= HugeInt

\* the history of one more clean_record call
CallLogged(log, row, res) ==
    [calls    |-> log.calls + 1,
     rejected |-> log.rejected + (IF ~res.raised /\ IsNone(res.result) THEN 1 ELSE 0),
     returned |-> log.returned + (IF ~res.raised /\ ~IsNone(res.result) THEN 1 ELSE 0),
     caught   |-> log.caught + (IF RaisesInside(row) THEN 1 ELSE 0)]

CleanInit ==
    /\ ServerStart
    /\ aggregator = [r \in Runs |-> DataAggregator(1, 1)]
    /\ pc = [r \in Runs |-> "cleaning"]
    /\ Idle

CleanRecord ==
    \E row \in RawRows :
        LET res == clean_record(cleaner[1], row)
        IN  /\ clean_calls[1].calls < MaxCleanCalls
            /\ cleaner' = [cleaner EXCEPT ![1] = res.cleaner]
            /\ last_clean' = [last_clean EXCEPT ![1] =
                                 Some([row |-> row, result |-> res.result,
                                       raised |-> res.raised])]
            /\ clean_calls' = [clean_calls EXCEPT ![1] = CallLogged(@, row, res)]
            /\ UNCHANGED <<api_vars, aggregator, pc, chunk_size, source, reader_pos, raw_chunk,
                           cleaned_chunk, fed, offered,
                           faults, yielded, disk, results>>

CleanNext == CleanRecord

CleanSpec == CleanInit /\ [][CleanNext]_vars

-----------------------------------------------------------------------------
(* Claims about the DataCleaner. *)

\* the latest clean_record call of run r: [row, result, raised]
LastCall(r) == last_clean[r][1]

\* one of the four critical fields of the row resolves to None
AnyCriticalNull(row) ==
    \/ IsNone(_clean_quantity(row.quantity).value)
    \/ IsNone(_clean_float(row.unit_price))
    \/ IsNone(_clean_discount(row.discount_percent))
    \/ IsNone(_clean_date(row.sale_date))

\* the row with its string fields and its email taken away
WithoutStrings(row) ==
    [row EXCEPT !.product_name = RawNone, !.category = RawNone, !.region = RawNone,
                !.customer_email = RawNone]

\* C7: after any sequence of clean_record calls, records_processed is the number
\* of calls, records_dropped the number of calls that returned None,
\* records_cleaned (processed - dropped) the number of records returned, so that
\* processed = cleaned + dropped and 0 <= dropped <= processed; success_rate is
\* 0 when nothing has been processed.
C7_CounterAccounting ==
    \A r \in Runs :
        LET c  == cleaner[r]
            h  == clean_calls[r]
            st == get_statistics(c)
        IN  /\ c.records_processed = h.calls
            /\ c.records_dropped = h.rejected
            /\ st.records_cleaned = h.returned
            /\ st.records_processed = st.records_cleaned + st.records_dropped
            /\ 0 <= c.records_dropped /\ c.records_dropped <= c.records_processed
            /\ c.records_processed = 0 => st.success_rate.n = 0

\* calls that returned a record, that dropped a row in step 5 and that ended in
\* the except clause
C7_Witness ==
    LET h == clean_calls[1]
    IN  /\ h.returned = 1
        /\ h.caught = 1
        /\ h.rejected = 2

\* C8: clean_record returns None if and only if one of quantity, unit_price,
\* discount_percent, sale_date resolved to None; the name fields and the email
\* never cause a rejection; an accepted record carries
\* revenue = quantity * unit_price * (1 - discount_percent).
C8_DropRule ==
    \A r \in Runs :
        last_clean[r] # <<>> =>
            LET row    == LastCall(r).row
                result == LastCall(r).result
            IN  /\ IsNone(result) <=> AnyCriticalNull(row)
                /\ IsNone(result) <=>
                       IsNone(clean_record(DataCleaner, WithoutStrings(row)).result)
                /\ ~IsNone(result) =>
                       result[1].revenue =
                           result[1].quantity * result[1].unit_price
                               * (10 - result[1].discount_percent)

\* C8 as amended: clean_record returns None if and only if one of the four
\* critical fields resolved to None or a statement of the cleaning raised (the
\* except clause rejects the row); the rest as in C8.
C8_DropRuleOrRaise ==
    \A r \in Runs :
        last_clean[r] # <<>> =>
            LET row    == LastCall(r).row
                result == LastCall(r).result
            IN  /\ IsNone(result) <=> (AnyCriticalNull(row) \/ RaisesInside(row))
                /\ IsNone(result) <=>
                       IsNone(clean_record(DataCleaner, WithoutStrings(row)).result)
                /\ ~IsNone(result) =>
                       result[1].revenue =
                           result[1].quantity * result[1].unit_price
                               * (10 - result[1].discount_percent)

\* a row with four usable critical fields was rejected because the revenue
\* overflowed, after another row had been accepted
C8_Witness ==
    /\ last_clean[1] # <<>>
    /\ IsNone(LastCall(1).result)
    /\ ~AnyCriticalNull(LastCall(1).row)
    /\ clean_calls[1].returned >= 1

\* C10: every record clean_record returns has a quantity that is an integer
\* >= 1, for numeric raw quantities as well as for strings.
C10_QuantityPositive ==
    \A r \in Runs :
        (last_clean[r] # <<>> /\ ~IsNone(LastCall(r).result)) =>
            LastCall(r).result[1].quantity >= 1

-----------------------------------------------------------------------------
(* CSVReader (ingestion.py) and DataPipeline (orchestrator.py).  csv.DictReader *)
(* gives every field as a str, or None where a line is short.               *)

\* 1 x 2000.0 at 60% off, written untidily
RowDiscountA ==
    [order_id         |-> "ORD-2",
     product_name     |-> RawStr("  Smartfone X "),
     category         |-> RawStr("ELECTRONICS"),
     quantity         |-> RawStr(<<"1">>),
     unit_price       |-> RawStr(<<"2", "0", "0", "0">>),
     discount_percent |-> RawStr(<<"0", ".", "6">>),
     region           |-> RawStr("South "),
     sale_date        |-> RawStr(DateText("-", 2024, 1, 20, FALSE, <<>>)),
     customer_email   |-> RawStr(<<>>)]
\* the same quantity, price and discount, another product and month
RowDiscountB ==
    [RowDiscountA EXCEPT !.order_id = "ORD-3",
                         !.product_name = RawStr("blenderpro"),
                         !.category = RawStr("home appliance"),
                         !.region = RawStr("nort"),
                         !.sale_date = RawStr(DateText("/", 2024, 2, 5, FALSE, <<>>))]
\* a negative quantity, and a short line
RowBadQuantity ==
    [BaseRow EXCEPT !.order_id = "ORD-4", !.quantity = RawStr(<<"-", "5">>),
                    !.customer_email = RawNone]
\* a quantity too long for a float
RowOverflow == [BaseRow EXCEPT !.order_id = "ORD-5", !.quantity = RawStr(LongDigits)]

CsvRows == {BaseRow, RowDiscountA, RowDiscountB, RowBadQuantity, RowOverflow}

\* the loop of read_in_chunks resumed after pos rows, chunk being the rows
\* gathered since the last yield: [chunk, pos] at the next yield, the chunk
\* empty when the generator ends without one
RECURSIVE FaultyFillChunk_NoRemainder(_, _, _, _)
\* fault: the rows left over after the last full chunk are never yielded
FaultyFillChunk_NoRemainder(rows, pos, chunk, size) ==
    IF pos = Len(rows) THEN [chunk |-> <<>>, pos |-> pos]
    ELSE IF Len(chunk) + 1 = size
    THEN [chunk |-> Append(chunk, rows[pos + 1]), pos |-> pos + 1]
    ELSE FaultyFillChunk_NoRemainder(rows, pos + 1, Append(chunk, rows[pos + 1]), size)

RECURSIVE FaultyFillChunk_OneTooMany(_, _, _, _)
\* fault: a chunk is yielded only once it is longer than the chunk size
FaultyFillChunk_OneTooMany(rows, pos, chunk, size) ==
    IF pos = Len(rows) THEN [chunk |-> chunk, pos |-> pos]
    ELSE IF Len(chunk) + 1 > size
    THEN [chunk |-> Append(chunk, rows[pos + 1]), pos |-> pos + 1]
    ELSE FaultyFillChunk_OneTooMany(rows, pos + 1, Append(chunk, rows[pos + 1]), size)

RECURSIVE FillChunk(_, _, _, _)
FillChunk(rows, pos, chunk, size) ==
    IF pos = Len(rows) THEN [chunk |-> chunk, pos |-> pos]
    ELSE IF Len(chunk) + 1 = size
    THEN [chunk |-> Append(chunk, rows[pos + 1]), pos |-> pos + 1]
    ELSE FillChunk(rows, pos + 1, Append(chunk, rows[pos + 1]), size)

\* fault: an error while reading ends the sequence of chunks as if the file
\* had ended
Faulty_read_in_chunks_SwallowsError(rows, pos, size, fault) ==
    LET next == FillChunk(rows, pos, <<>>, size)
    IN  IF fault = 0 \/ (fault >= 1 /\ pos < fault /\ fault <= next.pos)
        THEN [chunk |-> <<>>, pos |-> pos, raised |-> FALSE]
        ELSE [chunk |-> next.chunk, pos |-> next.pos, raised |-> FALSE]

\* read_in_chunks resumed after pos rows: [chunk, pos, raised].  open() raises
\* FileNotFoundError for a missing path and the csv reader raises at a row it
\* cannot read; both are logged and raised again, and the rows gathered since
\* the last yield are gone with the generator
read_in_chunks(rows, pos, size, fault) ==
    LET next == FillChunk(rows, pos, <<>>, size)
    IN  IF fault = 0 \/ (fault >= 1 /\ pos < fault /\ fault <= next.pos)
        THEN [chunk |-> <<>>, pos |-> IF fault = 0 THEN 0 ELSE fault - 1, raised |-> TRUE]
        ELSE [chunk |-> next.chunk, pos |-> next.pos, raised |-> FALSE]

-----------------------------------------------------------------------------
(* DataSaver (storage.py).  The output directory is a dict from file name   *)
(* to [headers, rows]; a cell holds the value csv.DictWriter turns to text. *)

\* the files of a run, in the order in which run has them written
FileNames ==
    << "monthly_sales_summary.csv", "top_products.csv", "region_wise_performance.csv",
       "category_discount_map.csv", "anomaly_records.csv", "aggregation_summary.json",
       "DATA_DICTIONARY.md" >>

File(headers, rows) == [headers |-> headers, rows |-> rows]

\* fault: a file that cannot be opened is passed over in silence
FaultyWriteFile_Ignored(files, k, file, fault) ==
    IF fault = k THEN [disk |-> files, raised |-> FALSE]
    ELSE [disk |-> DictPut(files, FileNames[k], file), raised |-> FALSE]

\* open(file_path, 'w') and what follows it: the file is created or replaced,
\* unless it is the file that cannot be opened: [disk, raised]
WriteFile(files, k, file, fault) ==
    IF fault = k THEN [disk |-> files, raised |-> TRUE]
    ELSE [disk |-> DictPut(files, FileNames[k], file), raised |-> FALSE]

\* sort keys: the month, negated, as rows.sort(key=month) ascends; the revenue
MonthKeysAsc(rows) == [i \in 1..Len(rows) |-> <<0 - rows[i].month[1], 0 - rows[i].month[2]>>]
RevenueKeys(rows) == [i \in 1..Len(rows) |-> <<rows[i].revenue>>]

RECURSIVE GCD(_, _)
GCD(a, b) == IF b = 0 THEN a ELSE GCD(b, a % b)

\* a quotient in lowest terms (the denominator is positive)
Reduced(q) ==
    LET g == GCD(IF q.n < 0 THEN 0 - q.n ELSE q.n, q.d)
    IN  Ratio(q.n \div g, q.d \div g)

\* p < q for quotients in lowest terms
RatioLess(p, q) == p.n * q.d < q.n * p.d

\* sort keys for avg_discount: each quotient's rank among the quotients
AvgDiscountKeys(rows) ==
    [i \in 1..Len(rows) |->
        <<Cardinality({j \in 1..Len(rows) :
             RatioLess(Reduced(rows[j].avg_discount), Reduced(rows[i].avg_discount))})>>]

\* fault: the monthly rows are written in the order of the dict
FaultyMonthlyFile_Unsorted(data) ==
    File(<<"month", "revenue", "quantity", "avg_discount">>,
         [i \in 1..Len(data) |->
             [month        |-> data[i].key,
              revenue      |-> data[i].val.revenue,
              quantity     |-> data[i].val.quantity,
              avg_discount |-> data[i].val.avg_discount]])

\* save_monthly_sales: [{'month': k, **v} for k, v in data.items()], by month
MonthlyFile(data) ==
    LET rows == [i \in 1..Len(data) |->
                    [month        |-> data[i].key,
                     revenue      |-> data[i].val.revenue,
                     quantity     |-> data[i].val.quantity,
                     avg_discount |-> data[i].val.avg_discount]]
    IN  File(<<"month", "revenue", "quantity", "avg_discount">>,
             SortedDesc(rows, MonthKeysAsc(rows)))

\* save_top_products: the list as it is
TopProductsFile(data) ==
    File(<<"product_name", "revenue", "quantity">>,
         [i \in 1..Len(data) |->
             [product_name |-> data[i].key,
              revenue      |-> data[i].val.revenue,
              quantity     |-> data[i].val.quantity]])

\* save_region_performance: by revenue, largest first
RegionFile(data) ==
    LET rows == [i \in 1..Len(data) |->
                    [region   |-> data[i].key,
                     revenue  |-> data[i].val.revenue,
                     quantity |-> data[i].val.quantity]]
    IN  File(<<"region", "revenue", "quantity">>, SortedDesc(rows, RevenueKeys(rows)))

\* save_category_discounts: by avg_discount, largest first
CategoryFile(data) ==
    LET rows == [i \in 1..Len(data) |->
                    [category     |-> data[i].key,
                     avg_discount |-> data[i].val.avg_discount]]
    IN  File(<<"category", "avg_discount">>, SortedDesc(rows, AvgDiscountKeys(rows)))

\* value.strftime('%Y-%m-%d %H:%M:%S')
strftime(value) ==
    <<value.year, "-", value.month, "-", value.day, " ",
      value.hour, ":", value.minute, ":", value.second>>

\* the keys of an anomaly record, in the order of the dict
AnomalyHeaders ==
    << "order_id", "product_name", "category", "quantity", "unit_price",
       "discount_percent", "region", "sale_date", "customer_email", "revenue",
       "anomaly_score", "anomaly_reasons" >>

\* save_anomaly_records: the ten default headers for an empty list, else the
\* keys of the first record and every record with its datetime formatted
AnomalyFile(data) ==
    IF data = <<>> THEN File(SubSeq(AnomalyHeaders, 1, 10), <<>>)
    ELSE File(AnomalyHeaders,
              [i \in 1..Len(data) |->
                  [f \in Range(AnomalyHeaders) |->
                      IF f = "sale_date" THEN strftime(data[i].sale_date)
                      ELSE data[i][f]]])

\* fault: only the record count is written
FaultySummaryFile_CountOnly(summary_data) ==
    File(<<>>, <<[records_processed |-> summary_data.records_processed]>>)

\* _save_summary: json.dump of the summary it is given
SummaryFile(summary_data) == File(<<>>, <<summary_data>>)

\* create_data_dictionary: a fixed text
DataDictionaryFile == File(<<>>, <<"# Data Dictionary">>)

\* save_all_data on the output directory files: [disk, raised]
save_all_data(files, a, fault) ==
    LET w1 == WriteFile(files, 1, MonthlyFile(a.monthly_sales), fault)
        w2 == WriteFile(w1.disk, 2, TopProductsFile(TopProducts(a)), fault)
        w3 == WriteFile(w2.disk, 3, RegionFile(a.region_sales), fault)
        w4 == WriteFile(w3.disk, 4, CategoryFile(a.category_discounts), fault)
        w5 == WriteFile(w4.disk, 5, AnomalyFile(a.anomaly_records), fault)
        w6 == WriteFile(w5.disk, 6, SummaryFile(get_aggregation_summary(a)), fault)
    IN  IF w1.raised THEN w1 ELSE IF w2.raised THEN w2 ELSE IF w3.raised THEN w3
        ELSE IF w4.raised THEN w4 ELSE IF w5.raised THEN w5 ELSE w6

\* create_data_dictionary
create_data_dictionary(files, fault) == WriteFile(files, 7, DataDictionaryFile, fault)

\* _get_processing_stats: the summary and the chunk size (the size of the
\* input file in bytes is left out)
_get_processing_stats(a, size) == get_aggregation_summary(a) @@ [chunk_size |-> size]

\* the dict that run returns
Results(a, c, size, files) ==
    [pipeline_status    |-> "completed",
     saved_files        |-> [i \in 1..Len(files) |-> files[i].key],
     processing_stats   |-> _get_processing_stats(a, size),
     data_quality_stats |-> get_statistics(c)]

\* the position of run r is one of
\*   "read"      at the head of the for loop of _process_chunks
\*   "clean"     inside the loop, a chunk in hand
\*   "finalize"  _process_chunks has returned
\*   "save"      finalize_aggregations has returned
\*   "done"      run has returned its results
\*   "failed"    an exception has left run
Ended(r) == pc[r] \in {"done", "failed"}

\* the two runs are made one after the other
Turn(r) == r = 1 \/ Ended(1)

Init ==
    /\ ServerStart
    /\ \E al \in 0..MaxLimit, tl \in 1..MaxLimit :
          aggregator = [r \in Runs |-> DataAggregator(al, tl)]
    /\ cleaner = [r \in Runs |-> DataCleaner]
    /\ pc = [r \in Runs |-> "read"]
    /\ chunk_size \in [Runs -> 1..MaxChunkSize]
    /\ \E rows \in SeqsUpTo(CsvRows, MaxRows) : source = [r \in Runs |-> rows]
    /\ reader_pos = [r \in Runs |-> 0]
    /\ raw_chunk = [r \in Runs |-> <<>>]
    /\ cleaned_chunk = [r \in Runs |-> <<>>]
    /\ last_clean = [r \in Runs |-> <<>>]
    /\ clean_calls = [r \in Runs |->
                        [calls |-> 0, rejected |-> 0, returned |-> 0, caught |-> 0]]
    /\ fed = [r \in Runs |-> <<>>]
    /\ offered = [r \in Runs |-> <<>>]
    /\ faults = [r \in Runs |-> NoFault]
    /\ yielded = [r \in Runs |-> <<>>]
    /\ disk = [r \in Runs |-> <<>>]
    /\ results = [r \in Runs |-> <<>>]

\* the for loop takes the next chunk from the generator, or the generator
\* raises and the exception leaves _process_chunks and run
PullChunk(r) ==
    LET next == read_in_chunks(source[r], reader_pos[r], chunk_size[r], faults[r].reader)
    IN  /\ pc[r] = "read"
        /\ next.raised \/ next.chunk # <<>>
        /\ reader_pos' = [reader_pos EXCEPT ![r] = next.pos]
        /\ raw_chunk' = [raw_chunk EXCEPT ![r] = next.chunk]
        /\ cleaned_chunk' = [cleaned_chunk EXCEPT ![r] = <<>>]
        /\ yielded' = [yielded EXCEPT ![r] = IF next.raised THEN @ ELSE Append(@, next.chunk)]
        /\ pc' = [pc EXCEPT ![r] = IF next.raised THEN "failed" ELSE "clean"]
        /\ UNCHANGED <<api_vars, aggregator, cleaner, chunk_size, source, last_clean,
                       clean_calls, fed, offered, faults, disk, results>>

\* the generator ends: _process_chunks returns
ReaderExhausted(r) ==
    LET next == read_in_chunks(source[r], reader_pos[r], chunk_size[r], faults[r].reader)
    IN  /\ pc[r] = "read"
        /\ ~next.raised /\ next.chunk = <<>>
        /\ reader_pos' = [reader_pos EXCEPT ![r] = next.pos]
        /\ cleaned_chunk' = [cleaned_chunk EXCEPT ![r] = <<>>]
        /\ pc' = [pc EXCEPT ![r] = "finalize"]
        /\ UNCHANGED <<api_vars, aggregator, cleaner, chunk_size, source, raw_chunk,
                       last_clean, clean_calls, fed, offered,
                       faults, yielded, disk, results>>

\* one iteration of the inner loop: raw_chunk holds the rows still to clean
CleanRow(r) ==
    /\ pc[r] = "clean"
    /\ raw_chunk[r] # <<>>
    /\ \E row \in {Head(raw_chunk[r])} : \E res \in {clean_record(cleaner[r], row)} :
        /\ cleaner' = [cleaner EXCEPT ![r] = res.cleaner]
        /\ cleaned_chunk' = [cleaned_chunk EXCEPT ![r] =
                                IF ~res.raised /\ ~IsNone(res.result)
                                THEN Append(@, res.result[1]) ELSE @]
        /\ raw_chunk' = [raw_chunk EXCEPT ![r] = Tail(@)]
        /\ pc' = [pc EXCEPT ![r] = IF res.raised THEN "failed" ELSE "clean"]
        /\ last_clean' = [last_clean EXCEPT ![r] =
                             Some([row |-> row, result |-> res.result,
                                   raised |-> res.raised])]
        /\ clean_calls' = [clean_calls EXCEPT ![r] = CallLogged(@, row, res)]
        /\ UNCHANGED <<api_vars, aggregator, chunk_size, source, reader_pos, fed, offered,
                    faults, yielded, disk, results>>

\* fault: the aggregator is an attribute of the class, one for all instances
FaultyAggregateChunk_Shared(r) ==
    LET res == process_chunk(aggregator[1], cleaned_chunk[r])
    IN  /\ pc[r] = "clean"
        /\ raw_chunk[r] = <<>>
        /\ aggregator' = [aggregator EXCEPT ![1] =
                             IF cleaned_chunk[r] # <<>> THEN res.agg ELSE @]
        /\ fed' = [fed EXCEPT ![r] = @ \o cleaned_chunk[r]]
        /\ offered' = [offered EXCEPT ![r] =
                          IF cleaned_chunk[r] # <<>> THEN @ \o res.offered ELSE @]
        /\ pc' = [pc EXCEPT ![r] = "read"]
        /\ UNCHANGED <<api_vars, cleaner, chunk_size, source, reader_pos, raw_chunk,
                       cleaned_chunk, last_clean, clean_calls,
                       faults, yielded, disk, results>>

\* the chunk is cleaned: "if cleaned_chunk: self.aggregator.process_chunk(...)"
AggregateChunk(r) ==
    LET res == process_chunk(aggregator[r], cleaned_chunk[r])
    IN  /\ pc[r] = "clean"
        /\ raw_chunk[r] = <<>>
        /\ aggregator' = [aggregator EXCEPT ![r] =
                             IF cleaned_chunk[r] # <<>> THEN res.agg ELSE @]
        /\ fed' = [fed EXCEPT ![r] = @ \o cleaned_chunk[r]]
        /\ offered' = [offered EXCEPT ![r] =
                          IF cleaned_chunk[r] # <<>> THEN @ \o res.offered ELSE @]
        /\ pc' = [pc EXCEPT ![r] = "read"]
        /\ UNCHANGED <<api_vars, cleaner, chunk_size, source, reader_pos, raw_chunk,
                       cleaned_chunk, last_clean, clean_calls,
                       faults, yielded, disk, results>>

\* run: self.aggregator.finalize_aggregations()
Finalize(r) ==
    LET res == finalize_aggregations(aggregator[r])
    IN  /\ pc[r] = "finalize"
        /\ aggregator' = [aggregator EXCEPT ![r] = res.agg]
        /\ pc' = [pc EXCEPT ![r] = IF res.raised THEN "failed" ELSE "save"]
        /\ UNCHANGED <<api_vars, cleaner, chunk_size, source, reader_pos, raw_chunk,
                       cleaned_chunk, last_clean, clean_calls, fed, offered,
                       faults, yielded, disk, results>>

\* run: save_all_data, create_data_dictionary, and the results are returned;
\* an exception from the saver leaves run
Save(r) ==
    LET saved == save_all_data(disk[r], aggregator[r], faults[r].writer)
        w     == IF saved.raised THEN saved
                 ELSE create_data_dictionary(saved.disk, faults[r].writer)
    IN  /\ pc[r] = "save"
        /\ disk' = [disk EXCEPT ![r] = w.disk]
        /\ results' = [results EXCEPT ![r] =
                          IF w.raised THEN None
                          ELSE Some(Results(aggregator[r], cleaner[r], chunk_size[r], w.disk))]
        /\ pc' = [pc EXCEPT ![r] = IF w.raised THEN "failed" ELSE "done"]
        /\ UNCHANGED <<api_vars, aggregator, cleaner, chunk_size, source, reader_pos, raw_chunk,
                       cleaned_chunk, last_clean, clean_calls, fed, offered,
                       faults, yielded>>

Next ==
    \/ \E r \in Runs : Turn(r) /\ PullChunk(r)
    \/ \E r \in Runs : Turn(r) /\ ReaderExhausted(r)
    \/ \E r \in Runs : Turn(r) /\ CleanRow(r)
    \/ \E r \in Runs : Turn(r) /\ AggregateChunk(r)
    \/ \E r \in Runs : Turn(r) /\ Finalize(r)
    \/ \E r \in Runs : Turn(r) /\ Save(r)

Spec == Init /\ [][Next]_vars

-----------------------------------------------------------------------------
(* The same pipeline where reading the input or writing an output may fail. *)

\* a run meets no failure, or one: of the reader, at the open or at a row of
\* the file, or of the saver, at one of its files
FaultsOf(rows) ==
    {NoFault}
    \cup {Fault(k, 0) : k \in 0..Len(rows)}
    \cup {Fault(0 - 1, k) : k \in 1..Len(FileNames)}

FaultRows == {BaseRow, RowDiscountA, RowBadQuantity}

FaultInit ==
    /\ ServerStart
    /\ aggregator = [r \in Runs |-> DataAggregator(1, 1)]
    /\ cleaner = [r \in Runs |-> DataCleaner]
    /\ pc = [r \in Runs |-> "read"]
    /\ \E size \in 1..MaxChunkSize : chunk_size = [r \in Runs |-> size]
    /\ \E rows \in SeqsUpTo(FaultRows, MaxFaultRows) : source = [r \in Runs |-> rows]
    /\ faults \in [Runs -> FaultsOf(source[1])]
    /\ reader_pos = [r \in Runs |-> 0]
    /\ raw_chunk = [r \in Runs |-> <<>>]
    /\ cleaned_chunk = [r \in Runs |-> <<>>]
    /\ last_clean = [r \in Runs |-> <<>>]
    /\ clean_calls = [r \in Runs |->
                        [calls |-> 0, rejected |-> 0, returned |-> 0, caught |-> 0]]
    /\ fed = [r \in Runs |-> <<>>]
    /\ offered = [r \in Runs |-> <<>>]
    /\ yielded = [r \in Runs |-> <<>>]
    /\ disk = [r \in Runs |-> <<>>]
    /\ results = [r \in Runs |-> <<>>]

FaultSpec == FaultInit /\ [][Next]_vars

-----------------------------------------------------------------------------
(* The same pipeline on a long file: run 1 reads more rows than a tracker  *)
(* keeps samples, in small or in large chunks; run 2 reads a short file.    *)

BulkRows ==
    <<RowDiscountA, RowBadQuantity>> \o Repeat(BaseRow, SampleCap) \o <<RowDiscountB>>

BulkInit ==
    /\ ServerStart
    /\ aggregator = [r \in Runs |-> DataAggregator(1, 1)]
    /\ cleaner = [r \in Runs |-> DataCleaner]
    /\ pc = [r \in Runs |-> "read"]
    /\ \E size \in {MaxChunkSize, MaxBulkChunkSize} :
          chunk_size = [r \in Runs |-> IF r = 1 THEN size ELSE 1]
    /\ source = [r \in Runs |-> IF r = 1 THEN BulkRows ELSE <<RowDiscountA>>]
    /\ faults = [r \in Runs |-> NoFault]
    /\ reader_pos = [r \in Runs |-> 0]
    /\ raw_chunk = [r \in Runs |-> <<>>]
    /\ cleaned_chunk = [r \in Runs |-> <<>>]
    /\ last_clean = [r \in Runs |-> <<>>]
    /\ clean_calls = [r \in Runs |->
                        [calls |-> 0, rejected |-> 0, returned |-> 0, caught |-> 0]]
    /\ fed = [r \in Runs |-> <<>>]
    /\ offered = [r \in Runs |-> <<>>]
    /\ yielded = [r \in Runs |-> <<>>]
    /\ disk = [r \in Runs |-> <<>>]
    /\ results = [r \in Runs |-> <<>>]

BulkSpec == BulkInit /\ [][Next]_vars

-----------------------------------------------------------------------------
(* Two pipeline instances run concurrently, one thread each: every step of  *)
(* either may come between two steps of the other. Each instance has its   *)
(* own input file and chunk size.                                           *)

ConcInit ==
    /\ ServerStart
    /\ aggregator = [r \in Runs |-> DataAggregator(1, 1)]
    /\ cleaner = [r \in Runs |-> DataCleaner]
    /\ pc = [r \in Runs |-> "read"]
    /\ chunk_size \in [Runs -> 1..MaxChunkSize]
    /\ source \in [Runs -> SeqsUpTo(FaultRows, MaxConcRows)]
    /\ faults = [r \in Runs |-> NoFault]
    /\ reader_pos = [r \in Runs |-> 0]
    /\ raw_chunk = [r \in Runs |-> <<>>]
    /\ cleaned_chunk = [r \in Runs |-> <<>>]
    /\ last_clean = [r \in Runs |-> <<>>]
    /\ clean_calls = [r \in Runs |->
                        [calls |-> 0, rejected |-> 0, returned |-> 0, caught |-> 0]]
    /\ fed = [r \in Runs |-> <<>>]
    /\ offered = [r \in Runs |-> <<>>]
    /\ yielded = [r \in Runs |-> <<>>]
    /\ disk = [r \in Runs |-> <<>>]
    /\ results = [r \in Runs |-> <<>>]

ConcNext ==
    \/ \E r \in Runs : PullChunk(r)
    \/ \E r \in Runs : ReaderExhausted(r)
    \/ \E r \in Runs : CleanRow(r)
    \/ \E r \in Runs : AggregateChunk(r)
    \/ \E r \in Runs : Finalize(r)
    \/ \E r \in Runs : Save(r)

ConcSpec == ConcInit /\ [][ConcNext]_vars

-----------------------------------------------------------------------------
(* The API server. Request handlers are coroutines of one event loop: a     *)
(* handler without await runs from its first statement to its response     *)
(* with no other handler in between. A background task is a plain function, *)
(* which runs in a thread of the pool once the response is sent: each of    *)
(* its statements may fall between two statements of a handler or of        *)
(* another task.                                                            *)

HasJob(j) == job_status[j] # None
Job(j) == job_status[j][1]

\* the dict the three endpoints store under a new job id
NewJob(type, input_file, output_dir, num_rows) ==
    [type |-> type, status |-> "queued", input_file |-> input_file,
     output_dir |-> output_dir, num_rows |-> num_rows,
     started_at |-> FALSE, completed_at |-> FALSE, failed_at |-> FALSE,
     generation_stats |-> FALSE, results |-> None, error |-> None]

\* background_tasks.add_task(...) with the arguments the endpoint passes
NewTask(type, input_file, output_dir, num_rows) ==
    [NoTask EXCEPT !.pc = "queued", !.type = type, !.num_rows = num_rows,
                   !.input_file = input_file, !.output_dir = output_dir]

\* str(uuid.uuid4())
Fresh(j) == task[j].pc = "none" /\ \A k \in JobIds : k < j => task[k].pc # "none"

\* what a handler answers: the status code, the detail or status it
\* reports, and the results or file it hands out
Reply(code, detail, served) == [code |-> code, detail |-> detail, served |-> served]

\* job_status[job_id][...] = ...: KeyError once the job is deleted
Assign(j, job) == [job_status EXCEPT ![j] = Some(job)]

\* an exception takes the task to its except clause
Raised(j, e) == [task EXCEPT ![j].pc = "except", ![j].error = Some(e)]
At(j, next_pc) == [task EXCEPT ![j].pc = next_pc]

upload_file(j) ==
    /\ handler = NoHandler
    /\ Fresh(j)
    /\ fs' = Mkdir([fs EXCEPT ![UploadPath(j)] = DiskFile(Uploaded(j))], JobOutputDir(j))
    /\ job_status' = Assign(j, NewJob("upload", UploadPath(j), JobOutputDir(j), 0))
    /\ job_metadata' = save_job_metadata(job_status')
    /\ task' = [task EXCEPT ![j] = NewTask("upload", UploadPath(j), JobOutputDir(j), 0)]
    /\ UNCHANGED <<vars, handler>>

run_main_pipeline(j, num_rows) ==
    /\ handler = NoHandler
    /\ Fresh(j)
    /\ job_status' = Assign(j, NewJob("main_pipeline", MainInput, ProcessedDir, num_rows))
    /\ job_metadata' = save_job_metadata(job_status')
    /\ task' = [task EXCEPT ![j] = NewTask("main_pipeline", MainInput, ProcessedDir, num_rows)]
    /\ UNCHANGED <<vars, handler, fs>>

run_large_scale_test(j, num_rows) ==
    /\ handler = NoHandler
    /\ Fresh(j)
    /\ job_status' = Assign(j, NewJob("large_scale_test", LargeInput(num_rows),
                                      ProcessedDir, num_rows))
    /\ job_metadata' = save_job_metadata(job_status')
    /\ task' = [task EXCEPT ![j] = NewTask("large_scale_test", LargeInput(num_rows),
                                           ProcessedDir, num_rows)]
    /\ UNCHANGED <<vars, handler, fs>>

(* The background task: PipelineJobManager.run_pipeline, run_main_pipeline  *)
(* and run_large_scale_test, which differ in where the input comes from.    *)

\* job_status[job_id]['status'] = 'processing'; ...['started_at'] = ...
StartJob(j) ==
    /\ task[j].pc = "queued"
    /\ IF HasJob(j)
       THEN /\ job_status' = Assign(j, [Job(j) EXCEPT !.status = "processing",
                                                       !.started_at = TRUE])
            /\ task' = At(j, IF task[j].type = "upload" THEN "construct" ELSE "generate")
       ELSE /\ task' = Raised(j, "KeyError")
            /\ UNCHANGED job_status
    /\ UNCHANGED <<vars, fs, handler, job_metadata>>

\* generator.generate_dataset(file_path=input_file, num_rows=num_rows, ...)
GenerateData(j) ==
    /\ task[j].pc = "generate"
    /\ fs' = [fs EXCEPT ![task[j].input_file] = DiskFile(Generated(j, task[j].num_rows))]
    /\ task' = At(j, "construct")
    /\ UNCHANGED <<vars, job_status, handler, job_metadata>>

\* DataPipeline(...): DataSaver.__init__ creates the output directory
ConstructPipeline(j) ==
    /\ task[j].pc = "construct"
    /\ fs' = Mkdir(fs, task[j].output_dir)
    /\ task' = At(j, "validate")
    /\ UNCHANGED <<vars, job_status, handler, job_metadata>>

\* if not pipeline.validate_input(): raise ValueError(...)
ValidateInput(j) ==
    /\ task[j].pc = "validate"
    /\ task' = IF fs[task[j].input_file].kind = "file"
               THEN At(j, "read")
               ELSE Raised(j, "Input file validation failed")
    /\ UNCHANGED <<vars, job_status, fs, handler, job_metadata>>

\* pipeline.run(), first half: _process_chunks reads the input file
ReadInput(j) ==
    /\ task[j].pc = "read"
    /\ task' = IF fs[task[j].input_file].kind = "file"
               THEN [task EXCEPT ![j].pc = "save",
                                 ![j].data = Some(fs[task[j].input_file].content)]
               ELSE Raised(j, "FileNotFoundError")
    /\ UNCHANGED <<vars, job_status, fs, handler, job_metadata>>

\* pipeline.run(), second half: save_all_data writes the artifacts into the
\* output directory, or a write fails
SaveResults(j) ==
    /\ task[j].pc = "save"
    /\ \E write_fails \in BOOLEAN :
          IF write_fails \/ fs[task[j].output_dir].kind # "dir"
          THEN /\ task' = Raised(j, "OSError")
               /\ UNCHANGED fs
          ELSE LET artifacts == [by |-> j, of |-> task[j].data[1]]
               IN  /\ fs' = [fs EXCEPT ![task[j].output_dir] = DiskDir(Some(artifacts))]
                   /\ task' = [task EXCEPT
                                 ![j].pc = "copy",
                                 ![j].results = Some([saved_files |-> task[j].output_dir,
                                                      of |-> task[j].data[1]])]
    /\ UNCHANGED <<vars, job_status, handler, job_metadata>>

\* copies the *.csv, *.json and *.md files of output_dir into dashboard_dir
_copy_data_for_dashboard(disk_, output_dir, dashboard_dir) ==
    LET made == Mkdir(disk_, dashboard_dir)
    IN  IF disk_[output_dir].kind = "dir" /\ disk_[output_dir].artifacts # None
        THEN [made EXCEPT ![dashboard_dir] = DiskDir(disk_[output_dir].artifacts)]
        ELSE made

CopyForDashboard(j) ==
    /\ task[j].pc = "copy"
    /\ fs' = _copy_data_for_dashboard(fs, task[j].output_dir, DashboardDir)
    /\ task' = At(j, "set_status")
    /\ UNCHANGED <<vars, job_status, handler, job_metadata>>

\* job_status[job_id]['status'] = 'completed'
SetCompleted(j) ==
    /\ task[j].pc = "set_status"
    /\ IF HasJob(j)
       THEN /\ job_status' = Assign(j, [Job(j) EXCEPT !.status = "completed"])
            /\ task' = At(j, "set_completed_at")
       ELSE /\ task' = Raised(j, "KeyError")
            /\ UNCHANGED job_status
    /\ UNCHANGED <<vars, fs, handler, job_metadata>>

\* job_status[job_id]['completed_at'] = datetime.now().isoformat()
SetCompletedAt(j) ==
    /\ task[j].pc = "set_completed_at"
    /\ IF HasJob(j)
       THEN /\ job_status' = Assign(j, [Job(j) EXCEPT !.completed_at = TRUE])
            /\ task' = At(j, "set_results")
       ELSE /\ task' = Raised(j, "KeyError")
            /\ UNCHANGED job_status
    /\ UNCHANGED <<vars, fs, handler, job_metadata>>

\* job_status[job_id]['results'] = results
SetResults(j) ==
    /\ task[j].pc = "set_results"
    /\ IF HasJob(j)
       THEN /\ job_status' = Assign(j, [Job(j) EXCEPT !.results = task[j].results])
            /\ task' = At(j, "persist")
       ELSE /\ task' = Raised(j, "KeyError")
            /\ UNCHANGED job_status
    /\ UNCHANGED <<vars, fs, handler, job_metadata>>

\* job_status[job_id]['generation_stats'] = ... (not for an upload);
\* persist_job_status()
PersistCompleted(j) ==
    /\ task[j].pc = "persist"
    /\ IF task[j].type = "upload"
       THEN /\ job_metadata' = save_job_metadata(job_status)
            /\ task' = At(j, "done")
            /\ UNCHANGED job_status
       ELSE IF HasJob(j)
       THEN /\ job_status' = Assign(j, [Job(j) EXCEPT !.generation_stats = TRUE])
            /\ job_metadata' = save_job_metadata(job_status')
            /\ task' = At(j, "done")
       ELSE /\ task' = Raised(j, "KeyError")
            /\ UNCHANGED <<job_status, job_metadata>>
    /\ UNCHANGED <<vars, fs, handler>>

\* an except clause that records the error and leaves the status alone
FaultySetFailed_StatusKept(j) ==
    /\ task[j].pc = "except"
    /\ task' = At(j, IF HasJob(j) THEN "set_error" ELSE "died")
    /\ UNCHANGED <<vars, job_status, fs, handler, job_metadata>>

\* except Exception as e: job_status[job_id]['status'] = 'failed'. A
\* KeyError here leaves the function: the task is over.
SetFailed(j) ==
    /\ task[j].pc = "except"
    /\ IF HasJob(j)
       THEN /\ job_status' = Assign(j, [Job(j) EXCEPT !.status = "failed"])
            /\ task' = At(j, "set_error")
       ELSE /\ task' = At(j, "died")
            /\ UNCHANGED job_status
    /\ UNCHANGED <<vars, fs, handler, job_metadata>>

\* job_status[job_id]['error'] = str(e)
SetError(j) ==
    /\ task[j].pc = "set_error"
    /\ IF HasJob(j)
       THEN /\ job_status' = Assign(j, [Job(j) EXCEPT !.error = task[j].error])
            /\ task' = At(j, "set_failed_at")
       ELSE /\ task' = At(j, "died")
            /\ UNCHANGED job_status
    /\ UNCHANGED <<vars, fs, handler, job_metadata>>

\* job_status[job_id]['failed_at'] = ...; persist_job_status()
PersistFailed(j) ==
    /\ task[j].pc = "set_failed_at"
    /\ IF HasJob(j)
       THEN /\ job_status' = Assign(j, [Job(j) EXCEPT !.failed_at = TRUE])
            /\ job_metadata' = save_job_metadata(job_status')
            /\ task' = At(j, "done")
       ELSE /\ task' = At(j, "died")
            /\ UNCHANGED <<job_status, job_metadata>>
    /\ UNCHANGED <<vars, fs, handler>>

(* The request handlers that read or delete a job. A handler that only     *)
(* reads is the answer it gives in the state it runs in.                    *)

\* GET /status/{job_id}: works on a copy of the dict, taken in one piece
get_job_status(j) ==
    IF ~HasJob(j) THEN Reply(404, "Job not found", None)
    ELSE Reply(200, Job(j).status,
               IF Job(j).status = "completed" /\ Job(j).results # None
               THEN Some([summary |-> Job(j).results[1]])
               ELSE None)

\* GET /download/{job_id} and GET /dashboard-data/{job_id} test
\* job['status'] and then 'results' in job, on the dict itself: a statement
\* of a task may come between the two tests. This is the first test passed.
PassStatusTest(op, j) ==
    /\ handler = NoHandler
    /\ HasJob(j)
    /\ Job(j).status = "completed"
    /\ handler' = [op |-> op, job |-> j, at |-> "results"]
    /\ UNCHANGED <<vars, job_status, task, fs, job_metadata>>

\* the answer when the first test ends the request
EarlyReply(j) ==
    IF ~HasJob(j) THEN Reply(404, "Job not found", None)
    ELSE Reply(400, "Job not completed yet", None)

\* download_results from the test of 'results' in job on
download_results(job) ==
    IF job.results = None
    THEN Reply(404, "No results available", None)
    ELSE LET at == fs[job.results[1].saved_files]
         IN  IF at.kind = "dir" /\ at.artifacts # None
             THEN Reply(200, "file", Some(at.artifacts))
             ELSE Reply(404, "File not found on disk", None)

\* get_dashboard_data from the test of 'results' in job on
get_dashboard_data(job) ==
    IF job.results = None
    THEN Reply(404, "No results available", None)
    ELSE Reply(200, "metrics", job.results)

\* the answer of the handler the event loop is inside of
Answer ==
    IF handler.op = "download" THEN download_results(Job(handler.job))
    ELSE get_dashboard_data(Job(handler.job))

\* the second test and the response
Respond ==
    /\ handler.op \in {"download", "dashboard-data"}
    /\ handler' = NoHandler
    /\ UNCHANGED <<vars, job_status, task, fs, job_metadata>>

\* DELETE /jobs/{job_id}: the lookup and input_file.unlink()
delete_job(j) ==
    /\ handler = NoHandler
    /\ HasJob(j)
    /\ fs' = [fs EXCEPT ![Job(j).input_file] = Absent]
    /\ handler' = [op |-> "delete", job |-> j, at |-> "rmtree"]
    /\ UNCHANGED <<vars, job_status, task, job_metadata>>

\* shutil.rmtree(output_dir)
delete_job_rmtree ==
    /\ handler.op = "delete"
    /\ handler.at = "rmtree"
    /\ fs' = Rmtree(fs, Job(handler.job).output_dir)
    /\ handler' = [handler EXCEPT !.at = "del"]
    /\ UNCHANGED <<vars, job_status, task, job_metadata>>

\* del job_status[job_id]; persist_job_status()
delete_job_del ==
    /\ handler.op = "delete"
    /\ handler.at = "del"
    /\ job_status' = [job_status EXCEPT ![handler.job] = None]
    /\ job_metadata' = save_job_metadata(job_status')
    /\ handler' = NoHandler
    /\ UNCHANGED <<vars, task, fs>>

ApiInit ==
    /\ ServerStart
    /\ aggregator = [r \in Runs |-> DataAggregator(1, 1)]
    /\ cleaner = [r \in Runs |-> DataCleaner]
    /\ pc = [r \in Runs |-> "read"]
    /\ chunk_size = [r \in Runs |-> 1]
    /\ source = [r \in Runs |-> <<>>]
    /\ faults = [r \in Runs |-> NoFault]
    /\ reader_pos = [r \in Runs |-> 0]
    /\ raw_chunk = [r \in Runs |-> <<>>]
    /\ cleaned_chunk = [r \in Runs |-> <<>>]
    /\ last_clean = [r \in Runs |-> <<>>]
    /\ clean_calls = [r \in Runs |->
                        [calls |-> 0, rejected |-> 0, returned |-> 0, caught |-> 0]]
    /\ fed = [r \in Runs |-> <<>>]
    /\ offered = [r \in Runs |-> <<>>]
    /\ yielded = [r \in Runs |-> <<>>]
    /\ disk = [r \in Runs |-> <<>>]
    /\ results = [r \in Runs |-> <<>>]

ApiNext ==
    \/ \E j \in JobIds : upload_file(j)
    \/ \E j \in JobIds, n \in RowCounts : run_main_pipeline(j, n)
    \/ \E j \in JobIds, n \in RowCounts : run_large_scale_test(j, n)
    \/ \E j \in JobIds : StartJob(j)
    \/ \E j \in JobIds : GenerateData(j)
    \/ \E j \in JobIds : ConstructPipeline(j)
    \/ \E j \in JobIds : ValidateInput(j)
    \/ \E j \in JobIds : ReadInput(j)
    \/ \E j \in JobIds : SaveResults(j)
    \/ \E j \in JobIds : CopyForDashboard(j)
    \/ \E j \in JobIds : SetCompleted(j)
    \/ \E j \in JobIds : SetCompletedAt(j)
    \/ \E j \in JobIds : SetResults(j)
    \/ \E j \in JobIds : PersistCompleted(j)
    \/ \E j \in JobIds : SetFailed(j)
    \/ \E j \in JobIds : SetError(j)
    \/ \E j \in JobIds : PersistFailed(j)
    \/ \E j \in JobIds : PassStatusTest("download", j)
    \/ \E j \in JobIds : PassStatusTest("dashboard-data", j)
    \/ Respond
    \/ \E j \in JobIds : delete_job(j)
    \/ delete_job_rmtree
    \/ delete_job_del

all_vars == <<vars, api_vars>>

ApiSpec == ApiInit /\ [][ApiNext]_all_vars

-----------------------------------------------------------------------------
(* The pipeline. *)

\* what a run leaves behind: the sums, the lists and the cleaner's counters
Outcome(r) ==
    [pc             |-> pc[r],
     monthly_sales  |-> aggregator[r].monthly_sales,
     product_sales  |-> aggregator[r].product_sales,
     region_sales   |-> aggregator[r].region_sales,
     category_discounts |-> aggregator[r].category_discounts,
     anomalies      |-> aggregator[r].anomaly_records,
     top_products   |-> aggregator[r].top_products,
     statistics     |-> get_statistics(cleaner[r])]

\* C6: two runs over the same rows with batch sizes of at least one end alike:
\* the same monthly, product, region and category sums, the same cleaning
\* counters, the same anomaly and top-product lists.
C6_ChunkingInvariance ==
    (/\ Ended(1) /\ Ended(2)
     /\ source[1] = source[2]
     /\ chunk_size[1] >= 1 /\ chunk_size[2] >= 1)
    => Outcome(1) = Outcome(2)

\* three rows, one of them rejected, read one at a time by the first run and
\* two at a time by the second, with an anomaly kept and a product ranked
C6_Witness ==
    /\ pc[1] = "done" /\ pc[2] = "done"
    /\ chunk_size[1] = 1 /\ chunk_size[2] = 2
    /\ Len(source[1]) = 3
    /\ cleaner[2].records_dropped = 1
    /\ Len(fed[2]) = 2
    /\ aggregator[2].anomaly_records # <<>>
    /\ aggregator[2].top_products # <<>>

\* C9: cleaning a row never throws: the call returns a record or None, the
\* row is counted once as processed and, exactly when it is rejected, once as
\* dropped, nothing else records the failure, and the loop goes on to the
\* next row of the chunk.
C9_CleanerNeverThrows ==
    [][\A r \in Runs :
          clean_calls'[r].calls = clean_calls[r].calls + 1 =>
             LET call == last_clean'[r][1]
             IN  /\ ~call.raised
                 /\ cleaner'[r].records_processed = cleaner[r].records_processed + 1
                 /\ cleaner'[r].records_dropped =
                       cleaner[r].records_dropped + (IF IsNone(call.result) THEN 1 ELSE 0)
                 /\ aggregator'[r] = aggregator[r]
                 /\ cleaned_chunk'[r] = IF IsNone(call.result) THEN cleaned_chunk[r]
                                        ELSE Append(cleaned_chunk[r], call.result[1])
                 /\ raw_chunk'[r] = Tail(raw_chunk[r])
                 /\ pc'[r] = "clean"]_vars

\* a row that fails inside the cleaner and a row that fails validation have
\* both been rejected, and the run went on to accept the row after them
C9_Witness ==
    /\ clean_calls[1].caught = 1
    /\ clean_calls[1].rejected = 2
    /\ clean_calls[1].returned = 1
    /\ cleaner[1].records_dropped = 2
    /\ ~IsNone(last_clean[1][1].result)
    /\ pc[1] = "done"

-----------------------------------------------------------------------------
(* The cleaner's fields. *)

\* C11: every record clean_record returns has a unit_price of at least zero,
\* and so a revenue of at least zero: a row whose unit_price is a negative
\* number is never returned as a record.
C11_UnitPriceNonNegative ==
    \A r \in Runs :
        (last_clean[r] # <<>> /\ ~IsNone(LastCall(r).result)) =>
            /\ LastCall(r).result[1].unit_price >= 0
            /\ LastCall(r).result[1].revenue >= 0

\* the discount field of the row is a number between 0.0 and 1.0, bounds included
DiscountInRange(row) ==
    /\ row.discount_percent.t # "inf"
    /\ ~IsNone(_clean_float(row.discount_percent))
    /\ 0 <= _clean_float(row.discount_percent)[1]
    /\ _clean_float(row.discount_percent)[1] <= 10

\* C12: a discount is accepted exactly when it is a number d with
\* 0.0 <= d <= 1.0; any other value resolves to None and the row is dropped, so
\* that every returned record has a discount_percent in [0.0, 1.0], the number
\* that was written.
C12_DiscountRange ==
    \A r \in Runs :
        last_clean[r] # <<>> =>
            LET row    == LastCall(r).row
                result == LastCall(r).result
            IN  /\ DiscountInRange(row) <=> ~IsNone(_clean_discount(row.discount_percent))
                /\ ~DiscountInRange(row) => IsNone(result)
                /\ (DiscountInRange(row) /\ WithoutStrings(row) =
                      WithoutStrings([BaseRow EXCEPT !.discount_percent = row.discount_percent]))
                      => ~IsNone(result)
                /\ ~IsNone(result) =>
                      /\ result[1].discount_percent = _clean_float(row.discount_percent)[1]
                      /\ 0 <= result[1].discount_percent
                      /\ result[1].discount_percent <= 10

\* a row with the discount "1.0", the upper bound, was accepted after a row
\* had been rejected
C12_Witness ==
    /\ last_clean[1] # <<>>
    /\ LastCall(1).row.discount_percent = RawStr(<<"1", ".", "0">>)
    /\ ~IsNone(LastCall(1).result)
    /\ LastCall(1).result[1].discount_percent = 10
    /\ clean_calls[1].rejected >= 1

-----------------------------------------------------------------------------
(* The reader and the saver. *)

RECURSIVE Concat(_)
Concat(chunks) == IF chunks = <<>> THEN <<>> ELSE chunks[1] \o Concat(Tail(chunks))

\* the reader of run r has come to the end of its file
ReaderDone(r) == pc[r] \notin {"read", "clean"} /\ reader_pos[r] = Len(source[r])

\* C13: with a chunk size of at least one, no chunk yielded is empty or longer
\* than the chunk size, every chunk but the last has exactly the chunk size,
\* the chunks yielded so far make up the rows read so far in file order, and
\* when the file has been read the chunks are ceil(n / chunk_size) in number
\* and make up the n rows of the file, each once.
C13_ReaderBatching ==
    \A r \in Runs :
        (chunk_size[r] >= 1 /\ faults[r] = NoFault) =>
            LET n    == Len(source[r])
                size == chunk_size[r]
                ys   == yielded[r]
            IN  /\ \A i \in 1..Len(ys) :
                      /\ 1 <= Len(ys[i]) /\ Len(ys[i]) <= size
                      /\ i < Len(ys) => Len(ys[i]) = size
                /\ Concat(ys) = SubSeq(source[r], 1, reader_pos[r])
                /\ ReaderDone(r) =>
                      /\ Concat(ys) = source[r]
                      /\ Len(ys) = (n + size - 1) \div size

\* three rows read two at a time: a full chunk, then a chunk of one row
C13_Witness ==
    /\ pc[1] = "done"
    /\ Len(source[1]) = 3 /\ chunk_size[1] = 2
    /\ Len(yielded[1]) = 2
    /\ Len(yielded[1][1]) = 2 /\ Len(yielded[1][2]) = 1

\* the reader of run r fails, at the open or at a row of the file
ReaderFaulty(r) == faults[r].reader >= 0 /\ faults[r].reader <= Len(source[r])

\* C14: when the reader fails, the failure leaves run: no chunk holding the
\* unreadable row or a later one is yielded, finalize_aggregations and the
\* saver are never called, no output file is written and no results are
\* returned.
C14_ReaderFailurePropagates ==
    /\ [](\A r \in Runs :
            ReaderFaulty(r) =>
               /\ pc[r] \in {"read", "clean", "failed"}
               /\ ~aggregator[r].has_top_products
               /\ disk[r] = <<>>
               /\ IsNone(results[r])
               /\ Len(Concat(yielded[r])) <= (IF faults[r].reader = 0 THEN 0
                                              ELSE faults[r].reader - 1)
               /\ Concat(yielded[r]) = SubSeq(source[r], 1, Len(Concat(yielded[r]))))
    /\ [][\A r \in Runs :
            (/\ pc[r] = "read"
             /\ read_in_chunks(source[r], reader_pos[r], chunk_size[r],
                               faults[r].reader).raised
             /\ pc'[r] # pc[r])
            => /\ pc'[r] = "failed"
               /\ aggregator'[r] = aggregator[r]
               /\ yielded'[r] = yielded[r]]_vars

\* the second row of the file could not be read: the first had been yielded
\* and aggregated, and the run failed with nothing written
C14_Witness ==
    /\ faults[1].reader = 2
    /\ pc[1] = "failed"
    /\ Len(yielded[1]) = 1
    /\ fed[1] # <<>>
    /\ aggregator[1].records_processed = 1
    /\ disk[1] = <<>>

\* the names of the files of run r, in the order of writing
Written(r) == [i \in 1..Len(disk[r]) |-> disk[r][i].key]

\* C15: the files are written in the order monthly, top products, region,
\* category, anomaly, summary, data dictionary; when the k-th cannot be
\* written run fails, the k - 1 files before it stay, none after it is written
\* and no results are returned; run returns only with all seven written.
C15_WriteFailureFatal ==
    \A r \in Runs :
        /\ Written(r) = SubSeq(FileNames, 1, Len(disk[r]))
        /\ pc[r] = "done" =>
              /\ faults[r].writer = 0
              /\ Written(r) = FileNames
              /\ ~IsNone(results[r])
        /\ faults[r].writer >= 1 =>
              /\ pc[r] # "done"
              /\ IsNone(results[r])
              /\ Len(disk[r]) = IF pc[r] = "failed" THEN faults[r].writer - 1 ELSE 0

\* the category file could not be written: the three files before it are
\* there, with rows in them, and the run has failed
C15_Witness ==
    /\ faults[1].writer = 4
    /\ pc[1] = "failed"
    /\ Written(1) = SubSeq(FileNames, 1, 3)
    /\ disk[1][1].val.rows # <<>>
    /\ IsNone(results[1])

-----------------------------------------------------------------------------
(* Configuration and the life of an aggregator. *)

\* C16: a pipeline or aggregator with a non-positive anomaly_limit,
\* top_products_limit or chunk_size is refused when it is constructed: no such
\* object ever reads, aggregates or writes anything.
C16_NonPositiveRejected ==
    \A r \in Runs :
        (\/ aggregator[r].anomaly_limit <= 0
         \/ aggregator[r].top_products_limit <= 0
         \/ chunk_size[r] <= 0)
        => /\ fed[r] = <<>>
           /\ aggregator[r] = DataAggregator(aggregator[r].anomaly_limit,
                                             aggregator[r].top_products_limit)
           /\ yielded[r] = <<>>
           /\ disk[r] = <<>>

\* C17: once finalize_aggregations has been called, a process_chunk call
\* changes nothing in the aggregator: no bucket, no tracker, neither list and
\* not records_processed.
C17_FinalizedReadOnly ==
    [][\A r \in Runs :
          (pc[r] # "accumulating" /\ fed'[r] # fed[r]) =>
              aggregator'[r] = aggregator[r]]_vars

-----------------------------------------------------------------------------
(* The files written. *)

\* the file of run r with that name
FileOf(r, name) == DictGet(disk[r], name)
\* the document in aggregation_summary.json
SummaryOf(r) == FileOf(r, "aggregation_summary.json").rows[1]

\* the document holds the aggregator's counts
HoldsAggregation(doc, a) ==
    /\ {"records_processed", "monthly_periods", "unique_products", "regions",
        "categories", "anomaly_records", "top_products"} \subseteq DOMAIN doc
    /\ doc.records_processed = a.records_processed
    /\ doc.monthly_periods = Len(a.monthly_sales)
    /\ doc.unique_products = Len(a.product_sales)
    /\ doc.regions = Len(a.region_sales)
    /\ doc.categories = Len(a.category_discounts)
    /\ doc.anomaly_records = Len(a.anomaly_records)
    /\ doc.top_products = Len(a.top_products)

\* the cleaning statistics of a cleaner: processed, dropped, cleaned, rate
IsCleaningStatistics(stats, c) ==
    /\ stats.records_processed = c.records_processed
    /\ stats.records_dropped = c.records_dropped
    /\ stats.records_cleaned = c.records_processed - c.records_dropped
    /\ stats.success_rate.n * c.records_processed =
          (c.records_processed - c.records_dropped) * 100 * stats.success_rate.d

\* C18: the summary file holds, in one document, the aggregator's summary and
\* the cleaning statistics.
C18_SummaryHasBoth ==
    \A r \in Runs :
        pc[r] = "done" =>
            /\ HoldsAggregation(SummaryOf(r), aggregator[r])
            /\ \E f \in DOMAIN SummaryOf(r) \ DOMAIN get_aggregation_summary(aggregator[r]) :
                  IsCleaningStatistics(SummaryOf(r)[f], cleaner[r])

\* C18 as the code has it: the summary file holds the aggregator's summary
\* and nothing else; the cleaning statistics are not written but returned by
\* run, as data_quality_stats next to the aggregator's summary.
C18_SummaryIsAggregation ==
    \A r \in Runs :
        /\ DictHas(disk[r], "aggregation_summary.json") =>
              /\ HoldsAggregation(SummaryOf(r), aggregator[r])
              /\ DOMAIN SummaryOf(r) = DOMAIN get_aggregation_summary(aggregator[r])
        /\ pc[r] = "done" =>
              /\ DictHas(disk[r], "aggregation_summary.json")
              /\ IsCleaningStatistics(results[r][1].data_quality_stats, cleaner[r])
              /\ HoldsAggregation(results[r][1].processing_stats, aggregator[r])

\* a run has ended with rows dropped, records aggregated, an anomaly kept
C18_Witness ==
    /\ pc[1] = "done"
    /\ cleaner[1].records_dropped >= 1
    /\ SummaryOf(1).records_processed = 2
    /\ SummaryOf(1).anomaly_records = 1
    /\ results[1][1].data_quality_stats.records_cleaned = 2

\* the sequence has no value twice
NoRepeat(s) == \A i, j \in 1..Len(s) : i # j => s[i] # s[j]

\* C19: the monthly file has one row per month bucket, by month ascending;
\* the region file one row per region, by revenue descending; the category
\* file one row per category, by avg_discount descending; the top-products
\* and anomaly files have the aggregator's top products and anomaly records,
\* each once, in the aggregator's order.
C19_WriterRowOrder ==
    \A r \in Runs :
        pc[r] = "done" =>
            LET a        == aggregator[r]
                monthly  == FileOf(r, "monthly_sales_summary.csv").rows
                top      == FileOf(r, "top_products.csv").rows
                region   == FileOf(r, "region_wise_performance.csv").rows
                category == FileOf(r, "category_discount_map.csv").rows
                anomaly  == FileOf(r, "anomaly_records.csv").rows
            IN  /\ Len(monthly) = Len(a.monthly_sales)
                /\ \A i \in 1..Len(monthly) :
                      /\ DictHas(a.monthly_sales, monthly[i].month)
                      /\ monthly[i].revenue = DictGet(a.monthly_sales, monthly[i].month).revenue
                      /\ monthly[i].quantity = DictGet(a.monthly_sales, monthly[i].month).quantity
                      /\ monthly[i].avg_discount =
                            DictGet(a.monthly_sales, monthly[i].month).avg_discount
                /\ \A i, j \in 1..Len(monthly) :
                      i < j => KeyGt(monthly[j].month, monthly[i].month)
                /\ Len(region) = Len(a.region_sales)
                /\ NoRepeat([i \in 1..Len(region) |-> region[i].region])
                /\ \A i \in 1..Len(region) :
                      /\ DictHas(a.region_sales, region[i].region)
                      /\ region[i].revenue = DictGet(a.region_sales, region[i].region).revenue
                      /\ region[i].quantity = DictGet(a.region_sales, region[i].region).quantity
                /\ \A i, j \in 1..Len(region) : i < j => region[i].revenue >= region[j].revenue
                /\ Len(category) = Len(a.category_discounts)
                /\ NoRepeat([i \in 1..Len(category) |-> category[i].category])
                /\ \A i \in 1..Len(category) :
                      /\ DictHas(a.category_discounts, category[i].category)
                      /\ category[i].avg_discount =
                            DictGet(a.category_discounts, category[i].category).avg_discount
                /\ \A i, j \in 1..Len(category) :
                      i < j => ~RatioLess(Reduced(category[i].avg_discount),
                                          Reduced(category[j].avg_discount))
                /\ Len(top) = Len(a.top_products)
                /\ \A i \in 1..Len(top) :
                      /\ top[i].product_name = a.top_products[i]
                      /\ top[i].revenue = DictGet(a.product_sales, a.top_products[i]).revenue
                      /\ top[i].quantity = DictGet(a.product_sales, a.top_products[i]).quantity
                /\ Len(anomaly) = Len(a.anomaly_records)
                /\ \A i \in 1..Len(anomaly) :
                      /\ anomaly[i].order_id = a.anomaly_records[i].order_id
                      /\ anomaly[i].revenue = a.anomaly_records[i].revenue
                      /\ anomaly[i].anomaly_score = a.anomaly_records[i].anomaly_score

\* the February bucket was made before the January bucket and is written
\* after it; two regions, two categories and two anomaly records are written
C19_Witness ==
    /\ pc[1] = "done"
    /\ Len(aggregator[1].monthly_sales) = 2
    /\ KeyGt(aggregator[1].monthly_sales[1].key, aggregator[1].monthly_sales[2].key)
    /\ Len(FileOf(1, "region_wise_performance.csv").rows) = 2
    /\ Len(FileOf(1, "category_discount_map.csv").rows) = 2
    /\ Len(FileOf(1, "anomaly_records.csv").rows) = 2
    /\ Len(FileOf(1, "top_products.csv").rows) = 1
    /\ Len(aggregator[1].product_sales) = 2

-----------------------------------------------------------------------------
(* The working set of a run. *)

\* dict holds exactly one bucket for each distinct key of keys
OneBucketPer(dict, keys) ==
    /\ DictKeys(dict) = Range(keys)
    /\ Len(dict) = Cardinality(Range(keys))

\* the chunk the driver holds between the reader's yield and process_chunk
HeldChunk(r) ==
    IF pc[r] = "clean" /\ yielded[r] # <<>> THEN yielded[r][Len(yielded[r])] ELSE <<>>

\* C20: at every point of a run with batchSize >= 1 and anomalyLimit >= 1 the
\* driver holds at most batchSize raw rows (and as many cleaned ones), the
\* aggregator holds exactly one bucket per distinct month, product, region and
\* category seen, at most anomalyLimit anomaly records and at most 1000 sample
\* values in each of its three trackers, and aggregator and cleaner have no other
\* field that grows with the rows.
C20_BoundedWorkingSet ==
    \A r \in Runs :
        (chunk_size[r] >= 1 /\ aggregator[r].anomaly_limit >= 1) =>
            LET a   == aggregator[r]
                ing == Ingested(r)
            IN  /\ Len(HeldChunk(r)) <= chunk_size[r]
                /\ Len(raw_chunk[r]) <= chunk_size[r]
                /\ Len(cleaned_chunk[r]) <= chunk_size[r]
                /\ OneBucketPer(a.monthly_sales, MonthsOf(ing))
                /\ OneBucketPer(a.product_sales, ProductsOf(ing))
                /\ OneBucketPer(a.region_sales, RegionsOf(ing))
                /\ OneBucketPer(a.category_discounts,
                                [i \in 1..Len(ing) |-> ing[i].category])
                /\ Len(a.anomaly_records) <= a.anomaly_limit
                /\ Len(a.revenue_stats.values) <= SampleCap
                /\ Len(a.quantity_stats.values) <= SampleCap
                /\ Len(a.price_stats.values) <= SampleCap
                /\ Len(a.top_products) <= Len(a.product_sales)
                /\ DOMAIN a = DOMAIN DataAggregator(1, 1)
                /\ DOMAIN a.revenue_stats = DOMAIN StatsDefault
                /\ DOMAIN cleaner[r] = DOMAIN DataCleaner

\* a run that ended after more valid rows than a tracker keeps samples: each
\* tracker is full, the anomaly list is full with more candidates offered than it
\* keeps, and a full chunk was held
C20_Witness ==
    /\ pc[1] = "done"
    /\ chunk_size[1] >= 1 /\ aggregator[1].anomaly_limit >= 1
    /\ aggregator[1].revenue_stats.count > SampleCap
    /\ Len(aggregator[1].revenue_stats.values) = SampleCap
    /\ Len(aggregator[1].quantity_stats.values) = SampleCap
    /\ Len(aggregator[1].price_stats.values) = SampleCap
    /\ Len(aggregator[1].anomaly_records) = aggregator[1].anomaly_limit
    /\ Len(offered[1]) > aggregator[1].anomaly_limit
    /\ \E i \in 1..Len(yielded[1]) : Len(yielded[1][i]) = chunk_size[1]
    /\ Len(aggregator[1].product_sales) > 1

-----------------------------------------------------------------------------
(* Runs side by side. *)

RECURSIVE CleanChunk(_, _, _)
\* the inner loop of _process_chunks over one chunk, run without interruption
CleanChunk(c, chunk, cleaned) ==
    IF chunk = <<>> THEN [cleaner |-> c, cleaned |-> cleaned, raised |-> FALSE]
    ELSE LET res == clean_record(c, Head(chunk))
         IN  IF res.raised
             THEN [cleaner |-> res.cleaner, cleaned |-> cleaned, raised |-> TRUE]
             ELSE CleanChunk(res.cleaner, Tail(chunk),
                             IF IsNone(res.result) THEN cleaned
                             ELSE Append(cleaned, res.result[1]))

RECURSIVE RunAlone(_, _, _, _, _)
\* run() from reader position pos on, with nothing else running: what it
\* leaves in the aggregator and the cleaner, and how it ends
RunAlone(a, c, rows, pos, size) ==
    LET next == read_in_chunks(rows, pos, size, NoFault.reader)
    IN  IF next.raised THEN [pc |-> "failed", agg |-> a, cleaner |-> c]
        ELSE IF next.chunk = <<>>
        THEN LET res == finalize_aggregations(a)
             IN  [pc      |-> IF res.raised THEN "failed" ELSE "done",
                  agg     |-> res.agg,
                  cleaner |-> c]
        ELSE LET cl == CleanChunk(c, next.chunk, <<>>)
             IN  IF cl.raised THEN [pc |-> "failed", agg |-> a, cleaner |-> cl.cleaner]
                 ELSE RunAlone(IF cl.cleaned # <<>>
                               THEN process_chunk(a, cl.cleaned).agg ELSE a,
                               cl.cleaner, rows, next.pos, size)

\* the outcome of a run over rows, read size rows at a time, had it been the
\* only run
AloneOutcome(rows, size) ==
    LET alone == RunAlone(DataAggregator(1, 1), DataCleaner, rows, 0, size)
    IN  [pc             |-> alone.pc,
         monthly_sales  |-> alone.agg.monthly_sales,
         product_sales  |-> alone.agg.product_sales,
         region_sales   |-> alone.agg.region_sales,
         category_discounts |-> alone.agg.category_discounts,
         anomalies      |-> alone.agg.anomaly_records,
         top_products   |-> alone.agg.top_products,
         statistics     |-> get_statistics(alone.cleaner)]

\* run r takes a step
StepOf(r) ==
    \/ PullChunk(r) \/ ReaderExhausted(r) \/ CleanRow(r)
    \/ AggregateChunk(r) \/ Finalize(r) \/ Save(r)

\* C21: when two pipeline instances run concurrently, their steps interleaved
\* in any way, no step of one changes the cleaner counters or the aggregator
\* state (buckets, running stats, anomaly and top-N lists) of the other, and a
\* step's effect on its own run depends on that run's state alone: each run
\* ends with the finalized aggregates and the counters it has when run alone.
C21_RunIsolation ==
    [][\A r \in Runs :
          /\ \A q \in Runs \ {r} :
                StepOf(r) => /\ aggregator'[q] = aggregator[q]
                             /\ cleaner'[q] = cleaner[q]
          /\ Ended(r)' => Outcome(r)' = AloneOutcome(source[r], chunk_size[r])]_vars

\* run 1 has ended with an anomaly and a top product of its own while run 2,
\* on another file, is in the middle of its loop with records already ingested
C21_Witness ==
    /\ pc[1] = "done"
    /\ pc[2] = "clean" /\ fed[2] # <<>> /\ raw_chunk[2] # <<>>
    /\ source[1] # source[2]
    /\ aggregator[1].anomaly_records # <<>>
    /\ aggregator[1].top_products # <<>>
    /\ aggregator[2].product_sales # aggregator[1].product_sales
    /\ cleaner[1].records_dropped = 1

-----------------------------------------------------------------------------
(* Anomaly scores. *)

\* the statistical rules a record x triggers when it is the k-th record counted
\* and revenue, quantity and price are the sums over the k records
StatisticalRules(x, k, revenue, quantity, price) ==
    (IF x.revenue * k > 10 * revenue THEN {"Extremely high revenue"} ELSE {})
    \cup (IF x.quantity * k > 5 * quantity THEN {"Unusually high quantity"} ELSE {})
    \cup (IF x.unit_price * k > 5 * price THEN {"Extremely high unit price"} ELSE {})

\* the sum of the weights of the rules x triggers, stat being the statistical
\* rules among them
RuleWeights(x, stat) ==
    (IF "Extremely high revenue" \in stat THEN 3 ELSE 0)
    + (IF "Unusually high quantity" \in stat THEN 2 ELSE 0)
    + (IF "Extremely high unit price" \in stat THEN 2 ELSE 0)
    + (IF x.discount_percent > 7 THEN 1 ELSE 0)
    + (IF x.unit_price > 10000 /\ x.discount_percent > 5 THEN 2 ELSE 0)
    + (IF x.revenue > 5000000 THEN 1 ELSE 0)
    + (IF x.quantity > 100 /\ x.unit_price > 5000 THEN 2 ELSE 0)

\* the k-th record of s scored by the rules: the statistical rules count only
\* when more than 100 records come before it, and the sums they compare with
\* run over the first k records
ScoredAt(s, k) ==
    LET x    == s[k]
        upto == SubSeq(s, 1, k)
        stat == IF k - 1 > 100
                THEN StatisticalRules(x, k,
                        SumSeq([i \in 1..k |-> upto[i].revenue]),
                        SumSeq([i \in 1..k |-> upto[i].quantity]),
                        SumSeq([i \in 1..k |-> upto[i].unit_price]))
                ELSE {}
    IN  [order_id |-> x.order_id, anomaly_score |-> RuleWeights(x, stat),
         statistical |-> stat]

IsCandidate(e) == e.anomaly_score >= 2

\* the records of s that the rules make candidates, in order, each with its
\* score and the statistical rules it triggered
Candidates(s) == SelectSeq([k \in 1..Len(s) |-> ScoredAt(s, k)], IsCandidate)

\* what was offered to the anomaly list, entry by entry
Offers(r) ==
    [i \in 1..Len(offered[r]) |->
        [order_id      |-> offered[r][i].order_id,
         anomaly_score |-> offered[r][i].anomaly_score,
         statistical   |-> Range(offered[r][i].anomaly_reasons)
                           \cap {"Extremely high revenue", "Unusually high quantity",
                                 "Extremely high unit price"}]]

\* C22: a record's score is the sum of the weights of the rules it triggers
\* (statistical: 3 revenue, 2 quantity, 2 unit price; 1 for a discount above
\* 0.7; 2 for a unit price above 1000 with a discount above 0.5; 1 for revenue
\* above 50000; 2 for quantity above 100 with a unit price above 500); it is
\* offered to the anomaly list if and only if the score is at least 2, so every
\* entry of the list has a score of at least 2 and a record that triggers one
\* rule of weight 1 only is never in it.
C22_AnomalyCandidacy ==
    LET expected == Candidates(fed[1])
        list     == aggregator[1].anomaly_records
    IN  /\ Len(Offers(1)) = Len(expected)
        /\ \A i \in 1..Len(expected) :
              /\ Offers(1)[i].order_id = expected[i].order_id
              /\ Offers(1)[i].anomaly_score = expected[i].anomaly_score
        /\ \A i \in 1..Len(list) :
              /\ list[i].anomaly_score >= 2
              /\ list[i] \in Range(offered[1])
              /\ list[i].anomaly_score =
                    RuleWeights(list[i], Range(list[i].anomaly_reasons))
        /\ \A id \in {fed[1][i].order_id : i \in 1..Len(fed[1])} :
              (\A k \in 1..Len(fed[1]) :
                    fed[1][k].order_id = id => ScoredAt(fed[1], k).anomaly_score < 2)
                  => \A j \in 1..Len(list) : list[j].order_id # id

\* past the threshold of the statistical rules: a record of a single rule of
\* weight 1 was scored and left out, one of two such rules and one scored by a
\* statistical rule were offered
C22_Witness ==
    /\ Len(fed[1]) = StatMinRecords + 1 + MaxScoreRecords
    /\ ScoreSteepCheap \in Range(fed[1])
    /\ \E i \in 1..Len(offered[1]) : offered[1][i].order_id = ScoreTwoWeightOnes.order_id
    /\ \E i \in 1..Len(offered[1]) : Offers(1)[i].statistical # {}
    /\ aggregator[1].anomaly_records # <<>>

\* C23: the three statistical rules are evaluated for a record exactly when
\* more than 100 records have been fully processed before it: never for the
\* first 101 records ingested, always from the 102nd on, counted across chunks;
\* the running means they compare with already include the record scored.
C23_StatisticalGate ==
    LET expected == Candidates(fed[1])
    IN  /\ aggregator[1].records_processed = Len(fed[1])
        /\ aggregator[1].revenue_stats.count = Len(fed[1])
        /\ Len(Offers(1)) = Len(expected)
        /\ \A i \in 1..Len(expected) :
              Offers(1)[i].statistical = expected[i].statistical
        /\ \A k \in 1..Min(Len(fed[1]), 101) : ScoredAt(fed[1], k).statistical = {}
        /\ \A k \in 102..Len(fed[1]) :
              ScoredAt(fed[1], k).statistical # {} =>
                  \E i \in 1..Len(expected) :
                      /\ Offers(1)[i].order_id = fed[1][k].order_id
                      /\ Offers(1)[i].statistical = ScoredAt(fed[1], k).statistical

\* after 100 ordinary sales: a sale of 600 units as the 101st record is scored
\* without the statistical rules (offered for its two rules of weight 1 only);
\* the 102nd, above five times the mean price of the records before it but not
\* of the mean that counts it, is left out; the 103rd is offered for a
\* statistical rule
C23_Witness ==
    /\ Len(fed[1]) = 103
    /\ \A k \in 1..100 : fed[1][k] = RecNormal
    /\ fed[1][101] = ScoreTwoWeightOnes
    /\ fed[1][102] = ScoreEdgePrice
    /\ fed[1][103] = RecDiscountA
    /\ Len(offered[1]) = 2
    /\ Offers(1)[1].statistical = {}
    /\ Offers(1)[2].statistical = {"Extremely high unit price"}
    /\ ScoreEdgePrice.unit_price * 101
          > 5 * SumSeq([i \in 1..101 |-> fed[1][i].unit_price])
    /\ ScoreTwoWeightOnes.quantity * 101
          > 5 * SumSeq([i \in 1..101 |-> fed[1][i].quantity])

-----------------------------------------------------------------------------
(* Finalization. *)

\* the quotient n / d in lowest terms, for d # 0
Quotient(n, d) == IF d < 0 THEN Reduced(Ratio(0 - n, 0 - d)) ELSE Reduced(Ratio(n, d))

\* C24: finalize gives each monthly bucket avg_discount = (sum of
\* discount_percent) / (number of transactions) and leaves it with exactly
\* revenue, quantity and avg_discount; it gives each category bucket
\* avg_discount = (sum of revenue * discount_percent) / (sum of revenue), or 0.0
\* when that denominator is zero, and leaves it with exactly avg_discount; the
\* revenue and quantity sums of the buckets are not changed.
C24_FinalizeAverages ==
    pc[1] = "accumulating" =>
        LET a   == aggregator[1]
            fin == finalize_aggregations(a).agg
        IN  /\ Len(fin.monthly_sales) = Len(a.monthly_sales)
            /\ \A i \in 1..Len(a.monthly_sales) :
                  LET before == a.monthly_sales[i].val
                      after  == fin.monthly_sales[i].val
                  IN  /\ fin.monthly_sales[i].key = a.monthly_sales[i].key
                      /\ DOMAIN after = {"revenue", "quantity", "avg_discount"}
                      /\ after.revenue = before.revenue
                      /\ after.quantity = before.quantity
                      /\ Reduced(after.avg_discount)
                            = Quotient(before.total_discount, before.num_transactions)
            /\ Len(fin.category_discounts) = Len(a.category_discounts)
            /\ \A i \in 1..Len(a.category_discounts) :
                  LET before == a.category_discounts[i].val
                      after  == fin.category_discounts[i].val
                  IN  /\ fin.category_discounts[i].key = a.category_discounts[i].key
                      /\ DOMAIN after = {"avg_discount"}
                      /\ Reduced(after.avg_discount)
                            = IF before.total_revenue = 0 THEN Ratio(0, 1)
                              ELSE Quotient(before.total_discount_revenue,
                                            before.total_revenue)
            /\ fin.product_sales = a.product_sales
            /\ fin.region_sales = a.region_sales

-----------------------------------------------------------------------------
(* The driver. *)

\* C25: in a run that completes every source row is cleaned exactly once and
\* the aggregator ingests exactly the accepted rows, each once, in source
\* order: at the end the cleaner's records_processed is the number of source
\* rows and the aggregator's records_processed is the cleaner's
\* records_cleaned; finalize is called exactly once, after the last batch and
\* before any artifact is written.
C25_DriverConservation ==
    \A r \in Runs :
        LET accepted == CleanChunk(DataCleaner, source[r], <<>>).cleaned
            stats    == get_statistics(cleaner[r])
        IN  /\ pc[r] = "done" =>
                  /\ Concat(yielded[r]) = source[r]
                  /\ clean_calls[r].calls = Len(source[r])
                  /\ stats.records_processed = Len(source[r])
                  /\ fed[r] = accepted
                  /\ stats.records_cleaned = Len(accepted)
                  /\ aggregator[r].records_processed = stats.records_cleaned
                  /\ aggregator[r].revenue_stats.count = Len(accepted)
            /\ aggregator[r].has_top_products =>
                  /\ pc[r] \in {"save", "done", "failed"}
                  /\ reader_pos[r] = Len(source[r]) /\ raw_chunk[r] = <<>>
                  /\ fed[r] = accepted
            /\ disk[r] # <<>> => aggregator[r].has_top_products

-----------------------------------------------------------------------------
(* One record of a chunk. *)

\* all the effects of ingesting record on a, res being what process_chunk makes
\* of a for that record
AllApplied(a, record, res) ==
    /\ res.records_processed = a.records_processed + 1
    /\ res.revenue_stats.count = a.revenue_stats.count + 1
    /\ res.quantity_stats.count = a.quantity_stats.count + 1
    /\ res.price_stats.count = a.price_stats.count + 1
    /\ DictHas(res.monthly_sales, MonthKey(record.sale_date))
    /\ DictHas(res.product_sales, record.product_name)
    /\ DictHas(res.region_sales, record.region)
    /\ DictHas(res.category_discounts, record.category)
    /\ res.monthly_sales # a.monthly_sales
    /\ res.category_discounts # a.category_discounts

\* C26: for every record passed to process_chunk either all of its effects
\* are applied (the four buckets, the three running-stat trackers, the anomaly
\* list and records_processed) or none is: a record whose processing raises, for
\* a missing required field or at any later step, is skipped with the
\* aggregator exactly as it was before that record, and the records after it in
\* the chunk are still processed.
C26_RecordAtomicity ==
    [][LET a     == aggregator[1]
           chunk == SubSeq(fed'[1], Len(fed[1]) + 1, Len(fed'[1]))
       IN  /\ Len(chunk) = 1 =>
                 IF aggregator'[1].records_processed = a.records_processed
                 THEN aggregator'[1] = a
                 ELSE AllApplied(a, chunk[1], aggregator'[1])
           /\ Len(chunk) = 2 =>
                 aggregator'[1] = ProcessOne(ProcessOne(a, chunk[1]).agg, chunk[2]).agg]_vars

-----------------------------------------------------------------------------
(* finalize_aggregations called again. *)

\* C27: on an aggregator that has ingested at least one record a second call
\* of finalize_aggregations fails with an error before it modifies anything:
\* every finalized bucket, the anomaly list and the top-N list stay as the
\* first call left them; on an aggregator with no record a second call
\* succeeds and changes nothing.
C27_FinalizeAgain ==
    Finalized(1) =>
        LET again == finalize_aggregations(aggregator[1])
        IN  /\ again.agg = aggregator[1]
            /\ again.raised <=> Ingested(1) # <<>>

\* the second call has been made and has failed, on an aggregator with two
\* finalized months, an anomaly and a top product
C27_Witness ==
    /\ pc[1] = "finalize_raised"
    /\ aggregator[1].records_processed >= 2
    /\ Len(aggregator[1].monthly_sales) >= 2
    /\ \A i \in 1..Len(aggregator[1].monthly_sales) :
          DOMAIN aggregator[1].monthly_sales[i].val = {"revenue", "quantity", "avg_discount"}
    /\ aggregator[1].anomaly_records # <<>>
    /\ aggregator[1].top_products # <<>>

-----------------------------------------------------------------------------
(* The API server. *)

\* the order in which a background task passes its statements
TaskOrder ==
    <<"none", "queued", "generate", "construct", "validate", "read", "save", "copy",
      "set_status", "set_completed_at", "set_results", "persist",
      "except", "set_error", "set_failed_at", "done", "died">>
TaskRank(at) == CHOOSE i \in 1..Len(TaskOrder) : TaskOrder[i] = at
Over(j) == task[j].pc \in {"done", "died"}

\* the statement the background task of job j executes next
TaskStep(j) ==
    \/ StartJob(j) \/ GenerateData(j) \/ ConstructPipeline(j) \/ ValidateInput(j)
    \/ ReadInput(j) \/ SaveResults(j) \/ CopyForDashboard(j)
    \/ SetCompleted(j) \/ SetCompletedAt(j) \/ SetResults(j) \/ PersistCompleted(j)
    \/ SetFailed(j) \/ SetError(j) \/ PersistFailed(j)

(* C28: Job lifecycle. As long as a job is in job_status, its status is one *)
(* of queued, processing, completed, failed and changes only from queued to *)
(* processing and from processing to completed or failed; once its          *)
(* background task is over the job is completed or failed, failed if the    *)
(* task raised, and a failed job has the error of that exception. A task    *)
(* only moves forward and has no statement it could wait at, so it does     *)
(* get to its end.                                                          *)
C28_JobLifecycle ==
    [][\A j \in JobIds :
          /\ HasJob(j)' =>
                /\ Job(j)'.status \in {"queued", "processing", "completed", "failed"}
                /\ Job(j)'.status = "queued" <=> task'[j].pc = "queued"
                /\ Over(j)' =>
                      /\ Job(j)'.status \in {"completed", "failed"}
                      /\ task'[j].error # None <=> Job(j)'.status = "failed"
                      /\ Job(j)'.status = "failed" =>
                            /\ Job(j)'.error # None
                            /\ Job(j)'.error = task'[j].error
          /\ HasJob(j) /\ HasJob(j)' /\ Job(j)'.status # Job(j).status =>
                <<Job(j).status, Job(j)'.status>> \in
                    {<<"queued", "processing">>, <<"processing", "completed">>,
                     <<"processing", "failed">>}
          /\ ~HasJob(j) /\ HasJob(j)' => Job(j)'.status = "queued"
          /\ task'[j] # task[j] => TaskRank(task'[j].pc) > TaskRank(task[j].pc)
          /\ ~Over(j)' /\ task'[j].pc # "none" => (ENABLED TaskStep(j))']_all_vars

\* one job ended failed with the error its save raised, the other completed
C28_Witness ==
    \E j, k \in JobIds :
        /\ HasJob(j) /\ HasJob(k)
        /\ task[j].pc = "done" /\ task[k].pc = "done"
        /\ Job(j).status = "failed" /\ Job(j).error = Some("OSError") /\ Job(j).failed_at
        /\ Job(k).status = "completed" /\ Job(k).results # None

(* C29: Completed implies results. Whenever a job in job_status has the     *)
(* status completed, its results with their saved_files are in its dict:    *)
(* /status answers with the summary, and a /download or /dashboard-data     *)
(* request that has seen the status completed does not answer 'No results   *)
(* available'.                                                              *)
C29_CompletedImpliesResults ==
    /\ \A j \in JobIds :
          HasJob(j) /\ Job(j).status = "completed" =>
              /\ Job(j).results # None
              /\ get_job_status(j).served # None
    /\ handler.op \in {"download", "dashboard-data"} =>
          Answer.detail # "No results available"

\* the paths job j is registered with: its input file and what lies in or
\* below its output directory
FilesOf(j) ==
    {Job(j).input_file} \cup {p \in Paths : Below(p, Job(j).output_dir)}

\* the step is one of job j: a statement of its task, or of its deletion
ActsFor(j) ==
    \/ task'[j] # task[j]
    \/ handler.op = "delete" /\ handler.job = j
    \/ handler'.op = "delete" /\ handler'.job = j

(* C30: Job file isolation. Two jobs in job_status never have the same      *)
(* input file, nor output directories one in the other; no statement of a   *)
(* task and no deletion changes or removes a file of another job; a task    *)
(* reads the input its own job uploaded or generated, and the artifacts in  *)
(* a job's output directory are those the job itself wrote.                 *)
C30_JobFileIsolation ==
    [][/\ \A j, k \in JobIds :
             j # k /\ HasJob(j)' /\ HasJob(k)' => (FilesOf(j) \cap FilesOf(k))' = {}
       /\ \A k \in JobIds :
             HasJob(k) /\ ~ActsFor(k) => \A p \in FilesOf(k) : fs'[p] = fs[p]
       /\ \A j \in JobIds :
             /\ task'[j].data # None => task'[j].data[1][2] = j
             /\ HasJob(j)' /\ fs'[Job(j)'.output_dir].kind = "dir"
                  /\ fs'[Job(j)'.output_dir].artifacts # None =>
                    fs'[Job(j)'.output_dir].artifacts[1].by = j]_all_vars
====
